---------------------------- MODULE Spec2Model ----------------------------
(***************************************************************************)
(* Model of the chunker (src/ingest/chunking/chunker.py) and of the        *)
(* retriever (src/rag/retrieval.py) of rag-knowledge-base.                 *)
(*                                                                         *)
(* A Python str is a sequence of one-character strings, so that len(),     *)
(* strip(), "+" and "\n\n".join() are computed and not assumed.  An        *)
(* Optional value is a sequence of length 0 (None) or 1.                   *)
(***************************************************************************)
EXTENDS Integers, Sequences, FiniteSets, TLC

(***************************************************************************)
(* Bounds of the model.                                                    *)
(***************************************************************************)
\* longest block list handed to split_into_sections
MaxBlocks == 3
\* most blocks of a section handed to build_text_chunks_for_section
MaxSectionBlocks == 3
\* largest max_chars tried (min_chars ranges over 1 .. max_chars - 1)
MaxCharsLimit == 4
\* most rows of the chunks table
MaxPool == 3
\* most candidates of a pool whose stored values are of every kind
MaxNormalized == 2
\* most rows of the chunks table when it is read for rag_answer
MaxStore == 2
\* most entries of a manifest
MaxEntries == 2
\* most rows of the chunks table the embedding pipeline works on
MaxChunkRows == 3
\* the batch limit of the embedding pipeline: BATCH_SIZE, 100 at line 17 of
\* build_embeddings.py, in the scale of the model's tables
BATCH_SIZE == 2
\* most rows of the chunks table when retrieve_top_k is called with a scope
MaxScopeRows == 2
\* most blocks of the document ingest_book_generic reads
MaxBookBlocks == 3
\* most sections handed to insert_chunks_for_book
MaxInsertSections == 3
\* max_chars and min_chars of the chunker when the ingestion calls it: the
\* defaults 1200 and 600 of chunker.py lines 161-162, in the scale of the
\* model's texts
BookMaxChars == 4
BookMinChars == 2

(***************************************************************************)
(* Strings.                                                                *)
(***************************************************************************)
\* the separator "\n\n" of chunker.py lines 198, 200, 217 and 220
SEP == <<"\n", "\n">>

\* characters str.strip() removes
IsSpace(c) == c \in {" ", "\n", "\t"}

RECURSIVE lstrip(_)
lstrip(s) ==
  IF s = <<>> THEN <<>>
  ELSE IF IsSpace(Head(s)) THEN lstrip(Tail(s)) ELSE s

RECURSIVE rstrip(_)
rstrip(s) ==
  IF s = <<>> THEN <<>>
  ELSE IF IsSpace(s[Len(s)]) THEN rstrip(SubSeq(s, 1, Len(s) - 1)) ELSE s

\* str.strip()
strip(s) == rstrip(lstrip(s))

\* "\n\n".join(parts)
RECURSIVE join(_)
join(parts) ==
  IF parts = <<>> THEN <<>>
  ELSE IF Len(parts) = 1 THEN parts[1]
  ELSE parts[1] \o SEP \o join(Tail(parts))

\* the decimal digits of str(n), 0 <= n <= 99
DigitChar(d) == <<"0", "1", "2", "3", "4", "5", "6", "7", "8", "9">>[d + 1]
str(n) == IF n < 10 THEN <<DigitChar(n)>> ELSE <<DigitChar(n \div 10), DigitChar(n % 10)>>

\* f"Section {current_index}"
SectionTitle(n) == <<"S", "e", "c", "t", "i", "o", "n", " ">> \o str(n)

FULL_DOCUMENT == <<"F", "U", "L", "L", "_", "D", "O", "C", "U", "M", "E", "N", "T">>

\* Python's "x or y" on strings: x when x is non-empty, else y
OrElse(x, y) == IF x # <<>> THEN x ELSE y

(***************************************************************************)
(* Blocks.  A block is the dict the reader builds: type, level, text.      *)
(* level 0 stands for None (a paragraph, or a dict without "level").       *)
(***************************************************************************)
BlockTexts == { <<>>, <<"a">>, <<" ", "b">> }
BlockLevels == {0, 1, 2}

Block(lv, tx) ==
  [type |-> IF lv = 0 THEN "paragraph" ELSE "heading", level |-> lv, text |-> tx]

AllBlocks == { Block(lv, tx) : lv \in BlockLevels, tx \in BlockTexts }

_get_block_text(block) == strip(block.text)
_get_block_level(block) == block.level

Section(ix, ti, hb, bl) ==
  [index |-> ix, title |-> ti, heading_block |-> hb, blocks |-> bl]

SeqsUpTo(S, n) == UNION { [1..m -> S] : m \in 0..n }


VARIABLES
  \* split_into_sections: its argument, its locals, its position
  blocks, sections, has_h1, current_blocks, current_title,
  current_heading_block, current_index, split_i, split_pc,
  \* build_text_chunks_for_section: its arguments, its locals, its position
  section, max_chars, min_chars, pieces, chunks, current, current_len,
  piece_i, build_pc,
  \* retrieve_top_k: the chunks table, the argument k, the locals, the position
  store, k, loaded, query_embedding, score_i, scored, scored_chunks, top,
  retr_pc,
  \* POST /rag/answer: the request body, the handler's position, the HTTP
  \* response, the calls of the chat-completion model made for the request
  body, answer_pc, response, chat_calls,
  \* the bot: its mode table, its position, the update it handles, what it
  \* sent last
  CHAT_MODES, bot_pc, update, reply,
  \* the documents table; the scoping arguments and the query of
  \* retrieve_top_k; the inputs the embedding provider was called with by
  \* the running invocation
  documents, slug, slugs, query, embed_calls,
  \* ingest_from_manifest: the manifest, the arguments, the locals, the
  \* documents run_ingest_for_doc was run for, the position
  manifest, ids, mode, docs, supa_check, new_docs, man_i, ingested, man_pc,
  \* ingest_book_generic: the sections and the chunks table, the locals of
  \* ingest_book_generic and of insert_chunks_for_book, the position
  db_sections, db_chunks, document_id, section_ids, all_chunks_payload,
  global_chunk_index, book_i, batch_i, book_pc,
  \* build_embeddings_for_all_chunks: the fetched batch, the vectors of the
  \* provider, the counters, the position
  rows, embeddings, iteration, total_processed, emb_pc

split_vars == <<blocks, sections, has_h1, current_blocks, current_title,
                current_heading_block, current_index, split_i, split_pc>>

build_vars == <<section, max_chars, min_chars, pieces, chunks, current,
                current_len, piece_i, build_pc>>

retr_vars == <<store, k, loaded, query_embedding, score_i, scored,
               scored_chunks, top, retr_pc>>

app_vars == <<body, answer_pc, response, chat_calls,
              CHAT_MODES, bot_pc, update, reply>>

scope_vars == <<documents, slug, slugs, query, embed_calls>>

man_vars == <<manifest, ids, mode, docs, supa_check, new_docs, man_i,
              ingested, man_pc>>

book_vars == <<db_sections, db_chunks, document_id, section_ids,
               all_chunks_payload, global_chunk_index, book_i, batch_i, book_pc>>

emb_vars == <<rows, embeddings, iteration, total_processed, emb_pc>>

ing_vars == <<man_vars, book_vars, emb_vars>>

vars == <<split_vars, build_vars, retr_vars, app_vars, scope_vars, ing_vars>>

(***************************************************************************)
(* split_into_sections (chunker.py 56-129).                                *)
(***************************************************************************)
\* lines 81-89: close the accumulated section, if it has blocks
CloseSection(secs, cb, ci, ct, chb) ==
  IF cb # <<>>
  THEN Append(secs, Section(ci, IF ct = <<>> THEN <<>> ELSE ct[1], chb, cb))
  ELSE secs

\* a heading that forgets to take its own block into the section it opens
OpenedBlocksDropHeading(block) == <<>>

\* line 96: the block list of a newly opened section
OpenedBlocks(block) == <<block>>

\* lines 94-95: the title of the section opened as number n by `block`
OpenedTitle(block, n) == OrElse(_get_block_text(block), SectionTitle(n))

\* lines 102-123: the tail after the loop
SplitTailResult(bl, secs, h1, cb, ci, ct, chb) ==
  IF cb # <<>>
  THEN IF h1
       THEN Append(secs, Section(ci, IF ct = <<>> THEN <<>> ELSE ct[1], chb, cb))
       ELSE << Section(1, OrElse(IF bl # <<>> THEN _get_block_text(bl[1]) ELSE <<>>,
                                 FULL_DOCUMENT), <<>>, bl) >>
  ELSE secs

SplitInit ==
  /\ blocks \in SeqsUpTo(AllBlocks, MaxBlocks)
  /\ sections = <<>>
  /\ has_h1 = FALSE
  /\ current_blocks = <<>>
  /\ current_title = <<>>
  /\ current_heading_block = <<>>
  /\ current_index = 0
  /\ split_i = 1
  /\ split_pc = "loop"

\* lines 77-96: a block of level 1 closes the open section and opens the next
SplitHeading ==
  /\ split_pc = "loop"
  /\ split_i <= Len(blocks)
  /\ _get_block_level(blocks[split_i]) = 1
  /\ has_h1' = TRUE
  /\ sections' = CloseSection(sections, current_blocks, current_index,
                              current_title, current_heading_block)
  /\ current_index' = current_index + 1
  /\ current_heading_block' = <<blocks[split_i]>>
  /\ current_title' = <<OpenedTitle(blocks[split_i], current_index + 1)>>
  /\ current_blocks' = OpenedBlocks(blocks[split_i])
  /\ split_i' = split_i + 1
  /\ UNCHANGED <<blocks, split_pc>>
  /\ UNCHANGED <<build_vars, retr_vars, app_vars, scope_vars, ing_vars>>

\* lines 97-99: any other block is accumulated
SplitContent ==
  /\ split_pc = "loop"
  /\ split_i <= Len(blocks)
  /\ _get_block_level(blocks[split_i]) # 1
  /\ current_blocks' = Append(current_blocks, blocks[split_i])
  /\ split_i' = split_i + 1
  /\ UNCHANGED <<blocks, sections, has_h1, current_title,
                 current_heading_block, current_index, split_pc>>
  /\ UNCHANGED <<build_vars, retr_vars, app_vars, scope_vars, ing_vars>>

\* lines 101-129: the tail and the return
SplitTail ==
  /\ split_pc = "loop"
  /\ split_i > Len(blocks)
  /\ sections' = SplitTailResult(blocks, sections, has_h1, current_blocks,
                                 current_index, current_title, current_heading_block)
  /\ split_pc' = "returned"
  /\ UNCHANGED <<blocks, has_h1, current_blocks, current_title,
                 current_heading_block, current_index, split_i>>
  /\ UNCHANGED <<build_vars, retr_vars, app_vars, scope_vars, ing_vars>>

SplitNext == SplitHeading \/ SplitContent \/ SplitTail


(***************************************************************************)
(* build_text_chunks_for_section (chunker.py 159-224).                     *)
(***************************************************************************)
SectionTitles == { <<>>, <<" ">>, <<"T">>, <<" ", "T", " ">> }
SectionTexts ==
  { <<>>, <<" ">>, <<"a">>, <<"b">>, <<"c", "c", " ">>, <<"e", "e", "e", "e", "e">> }

\* a header that keeps the whitespace around the title
header_unstripped == section.title

\* line 178
header == strip(section.title)

\* lines 180-184: the non-empty stripped texts of the blocks, in order
RECURSIVE PiecesOf(_)
PiecesOf(bl) ==
  IF bl = <<>> THEN <<>>
  ELSE IF _get_block_text(Head(bl)) = <<>>
       THEN PiecesOf(Tail(bl))
       ELSE <<_get_block_text(Head(bl))>> \o PiecesOf(Tail(bl))

\* a flushed chunk that leaves the header out
full_text_no_header(hd, cur) == join(cur)

\* lines 198-202: the text flush_current appends for the buffer cur
full_text(hd, cur) ==
  IF hd # <<>> THEN hd \o SEP \o join(cur) ELSE join(cur)

\* a length that forgets the separator
extra_len_no_separator(piece, cur) == Len(piece)

\* line 209
extra_len(piece, cur) == Len(piece) + (IF cur # <<>> THEN 2 ELSE 0)

\* a flush only once the buffer itself has grown past max_chars
flush_before_when_over(cl, el, cur, mc) == cl > mc /\ cur # <<>>

\* line 210: the buffer is flushed before the piece is added
flush_before(cl, el, cur, mc) == cl + el > mc /\ cur # <<>>

\* a tail that is never merged
tail_merges_never(chs, tail_text, mn) == FALSE

\* line 218: the tail is glued to the previous chunk
tail_merges(chs, tail_text, mn) == chs # <<>> /\ Len(tail_text) < mn

\* a merge that loses the tail
merged_chunk_drops_tail(last, tail_text) == last

\* line 220
merged_chunk(last, tail_text) == last \o SEP \o tail_text

BuildInit ==
  /\ section \in { Section(1, ti, <<>>, bl) :
                     ti \in SectionTitles,
                     bl \in SeqsUpTo({ Block(0, tx) : tx \in SectionTexts },
                                     MaxSectionBlocks) }
  /\ max_chars \in 2..MaxCharsLimit
  /\ min_chars \in 1..MaxCharsLimit
  /\ min_chars < max_chars
  /\ pieces = <<>>
  /\ chunks = <<>>
  /\ current = <<>>
  /\ current_len = 0
  /\ piece_i = 1
  /\ build_pc = "start"

\* lines 175-188 when no block has text: the title alone, or nothing
BuildNoPieces ==
  /\ build_pc = "start"
  /\ PiecesOf(section.blocks) = <<>>
  /\ chunks' = IF header # <<>> THEN <<header>> ELSE <<>>
  /\ build_pc' = "returned"
  /\ UNCHANGED <<section, max_chars, min_chars, pieces, current, current_len, piece_i>>
  /\ UNCHANGED <<split_vars, retr_vars, app_vars, scope_vars, ing_vars>>

\* lines 175-192 otherwise: the pieces are collected, the buffer is empty
BuildStart ==
  /\ build_pc = "start"
  /\ PiecesOf(section.blocks) # <<>>
  /\ pieces' = PiecesOf(section.blocks)
  /\ build_pc' = "loop"
  /\ UNCHANGED <<section, max_chars, min_chars, chunks, current, current_len, piece_i>>
  /\ UNCHANGED <<split_vars, retr_vars, app_vars, scope_vars, ing_vars>>

\* lines 207-213: one turn of the loop over the pieces
BuildPiece ==
  /\ build_pc = "loop"
  /\ piece_i <= Len(pieces)
  /\ LET piece == pieces[piece_i]
         el == extra_len(piece, current)
     IN IF flush_before(current_len, el, current, max_chars)
        THEN /\ chunks' = Append(chunks, full_text(header, current))
             /\ current' = <<piece>>
             /\ current_len' = 0 + el
        ELSE /\ chunks' = chunks
             /\ current' = Append(current, piece)
             /\ current_len' = current_len + el
  /\ piece_i' = piece_i + 1
  /\ UNCHANGED <<section, max_chars, min_chars, pieces, build_pc>>
  /\ UNCHANGED <<split_vars, retr_vars, app_vars, scope_vars, ing_vars>>

\* lines 216-220: a short tail is glued to the previous chunk (the buffer
\* is left as it is: flush_current is not called)
BuildTailMerge ==
  /\ build_pc = "loop"
  /\ piece_i > Len(pieces)
  /\ current # <<>>
  /\ tail_merges(chunks, join(current), min_chars)
  /\ chunks' = [chunks EXCEPT ![Len(chunks)] = merged_chunk(@, join(current))]
  /\ build_pc' = "returned"
  /\ UNCHANGED <<section, max_chars, min_chars, pieces, current, current_len, piece_i>>
  /\ UNCHANGED <<split_vars, retr_vars, app_vars, scope_vars, ing_vars>>

\* lines 216-224: the tail is flushed as the last chunk
BuildTailFlush ==
  /\ build_pc = "loop"
  /\ piece_i > Len(pieces)
  /\ current # <<>>
  /\ ~tail_merges(chunks, join(current), min_chars)
  /\ chunks' = Append(chunks, full_text(header, current))
  /\ current' = <<>>
  /\ current_len' = 0
  /\ build_pc' = "returned"
  /\ UNCHANGED <<section, max_chars, min_chars, pieces, piece_i>>
  /\ UNCHANGED <<split_vars, retr_vars, app_vars, scope_vars, ing_vars>>

BuildNext ==
  BuildNoPieces \/ BuildStart \/ BuildPiece \/ BuildTailMerge \/ BuildTailFlush


(***************************************************************************)
(* Stored vectors (retrieval.py 25-37).  An element of a list is a number  *)
(* or something float() rejects; a raw embedding is NULL, a str, a list, a *)
(* tuple or a value of another type.                                       *)
(***************************************************************************)
Num(n) == [t |-> "num", v |-> n]
NonNum == [t |-> "str", v |-> 0]

RawNone == [kind |-> "None", s |-> <<>>, v |-> <<>>]
RawStr(chars) == [kind |-> "str", s |-> chars, v |-> <<>>]
RawList(elems) == [kind |-> "list", s |-> <<>>, v |-> elems]
RawTuple(elems) == [kind |-> "tuple", s |-> <<>>, v |-> elems]
RawOther == [kind |-> "other", s |-> <<>>, v |-> <<>>]

(***************************************************************************)
(* json.loads on the texts the model stores: an array of integers, an      *)
(* integer, null, the empty object, a string without escapes, with JSON    *)
(* whitespace where the grammar allows it; the other texts of the model    *)
(* are no JSON and give a JSONDecodeError.  json.loads converts an integer *)
(* literal with int(); CPython 3.11 refuses a literal of more than         *)
(* sys.int_info.default_max_str_digits digits with a ValueError that is no *)
(* JSONDecodeError.                                                        *)
(***************************************************************************)
\* sys.int_info.default_max_str_digits, the limit int() applies at line 181
int_max_str_digits == 4300

JsonDigits == {"0", "1", "2", "3", "4", "5", "6", "7", "8", "9"}
DigitVal(c) == CHOOSE d \in 0..9 : DigitChar(d) = c

\* the end (exclusive) of the run of digits of s that starts at i: the
\* first place from i on that holds no digit
DigitsEnd(s, i) ==
  LET ends == { j \in i..Len(s) : s[j] \notin JsonDigits } \cup { Len(s) + 1 }
  IN CHOOSE j \in ends : \A m \in ends : j <= m

RECURSIVE DigitsVal(_, _, _, _)
DigitsVal(s, i, e, acc) ==
  IF i >= e THEN acc ELSE DigitsVal(s, i + 1, e, 10 * acc + DigitVal(s[i]))

\* a JSON integer at s[i]: [ok, over (int() raises ValueError), val, next]
ParseNumber(s, i) ==
  LET neg == i <= Len(s) /\ s[i] = "-"
      b == IF neg THEN i + 1 ELSE i
      e == DigitsEnd(s, b)
  IN IF e = b \/ (e > b + 1 /\ s[b] = "0")
     THEN [ok |-> FALSE, over |-> FALSE, val |-> 0, next |-> i]
     ELSE IF e - b > int_max_str_digits
     THEN [ok |-> FALSE, over |-> TRUE, val |-> 0, next |-> i]
     ELSE [ok |-> TRUE, over |-> FALSE,
           val |-> IF neg THEN 0 - DigitsVal(s, b, e, 0) ELSE DigitsVal(s, b, e, 0),
           next |-> e]

\* a decoder that takes whitespace for a syntax error
SkipWsNone(s, i) == i

\* the first place from i on that holds no whitespace
RECURSIVE SkipWs(_, _)
SkipWs(s, i) ==
  IF i <= Len(s) /\ IsSpace(s[i]) THEN SkipWs(s, i + 1) ELSE i

\* the elements of an array from s[i] on: [ok, over, val, next]
RECURSIVE ParseElems(_, _, _)
ParseElems(s, i, acc) ==
  LET n == ParseNumber(s, SkipWs(s, i))
      j == SkipWs(s, n.next)
  IN IF ~n.ok THEN [ok |-> FALSE, over |-> n.over, val |-> <<>>, next |-> i]
     ELSE IF j > Len(s) THEN [ok |-> FALSE, over |-> FALSE, val |-> <<>>, next |-> i]
     ELSE IF s[j] = ","
          THEN ParseElems(s, j + 1, Append(acc, Num(n.val)))
          ELSE IF s[j] = "]"
               THEN [ok |-> TRUE, over |-> FALSE,
                     val |-> Append(acc, Num(n.val)), next |-> j + 1]
               ELSE [ok |-> FALSE, over |-> FALSE, val |-> <<>>, next |-> i]

\* a JSON string without escapes: quotes around characters that are neither
\* a quote nor a backslash
IsJsonString(t) ==
  /\ Len(t) >= 2
  /\ t[1] = "\""
  /\ t[Len(t)] = "\""
  /\ \A i \in 2..(Len(t) - 1) : t[i] \notin {"\"", "\\"}

\* {} with optional whitespace inside
IsEmptyObject(t) ==
  Len(t) >= 2 /\ t[1] = "{" /\ t[Len(t)] = "}" /\ SkipWs(t, 2) = Len(t)

\* json.loads(s): [raised (a ValueError that is no JSONDecodeError),
\* ok (decoded), isList, val]
json_loads(s) ==
  LET t == strip(s)
      NoDecode == [raised |-> FALSE, ok |-> FALSE, isList |-> FALSE, val |-> <<>>]
      Raised == [raised |-> TRUE, ok |-> FALSE, isList |-> FALSE, val |-> <<>>]
      NoList == [raised |-> FALSE, ok |-> TRUE, isList |-> FALSE, val |-> <<>>]
  IN IF t = <<>> THEN NoDecode
     ELSE IF t = <<"n", "u", "l", "l">> THEN NoList
     ELSE IF t[1] = "["
          THEN IF t[Len(t)] = "]" /\ SkipWs(t, 2) = Len(t)
               THEN [raised |-> FALSE, ok |-> TRUE, isList |-> TRUE, val |-> <<>>]
               ELSE LET a == ParseElems(t, 2, <<>>)
                    IN IF a.over THEN Raised
                       ELSE IF a.ok /\ a.next = Len(t) + 1
                       THEN [raised |-> FALSE, ok |-> TRUE, isList |-> TRUE, val |-> a.val]
                       ELSE NoDecode
     ELSE IF IsJsonString(t) \/ IsEmptyObject(t) THEN NoList
     ELSE LET n == ParseNumber(t, 1)
          IN IF n.over THEN Raised
             ELSE IF n.ok /\ n.next = Len(t) + 1 THEN NoList
             ELSE NoDecode

\* line 181 raises an error that line 182 does not catch
normalize_raises(emb_raw) ==
  IF emb_raw.kind = "str" THEN json_loads(emb_raw.s).raised ELSE FALSE

\* _normalize_embedding (lines 166-194): None as <<>>, a list as <<list>>;
\* list(emb_raw) of a tuple is the list of its elements
_normalize_embedding(emb_raw) ==
  IF emb_raw.kind = "None" THEN <<>>
  ELSE IF emb_raw.kind = "str"
       THEN LET parsed == json_loads(emb_raw.s)
            IN IF ~parsed.ok THEN <<>>
               ELSE IF ~parsed.isList THEN <<>>
               ELSE <<parsed.val>>
  ELSE IF emb_raw.kind \in {"list", "tuple"} THEN <<emb_raw.v>>
  ELSE <<>>


(***************************************************************************)
(* Similarity (retrieval.py 156-163).  Vectors hold integers, which        *)
(* float32 represents exactly.  The real number dot / (|a| * |b|) is kept  *)
(* exactly, as its sign and its square num / den, and compared by cross    *)
(* multiplication; float rounding of the quotient is not modelled.         *)
(***************************************************************************)
RECURSIVE SumSeq(_)
SumSeq(xs) == IF xs = <<>> THEN 0 ELSE Head(xs) + SumSeq(Tail(xs))

Norm2(a) == SumSeq([i \in 1..Len(a) |-> a[i] * a[i]])
Dot(a, b) == SumSeq([i \in 1..Len(a) |-> a[i] * b[i]])

Sign(x) == IF x > 0 THEN 1 ELSE IF x < 0 THEN 0 - 1 ELSE 0

ZeroScore == [sgn |-> 0, num |-> 0, den |-> 1]

\* x >= y as real numbers
ScoreGE(x, y) ==
  IF x.sgn # y.sgn THEN x.sgn > y.sgn
  ELSE IF x.sgn = 1 THEN x.num * y.den >= y.num * x.den
  ELSE IF x.sgn = 0 THEN TRUE
  ELSE x.num * y.den <= y.num * x.den

ScoreEQ(x, y) == ScoreGE(x, y) /\ ScoreGE(y, x)

\* a similarity that computes np.dot before it looks at the norms
cosine_similarity_dot_first(a, b) ==
  IF Len(a) # Len(b)
  THEN [raised |-> TRUE, sim |-> ZeroScore]
  ELSE IF Norm2(a) * Norm2(b) = 0
       THEN [raised |-> FALSE, sim |-> ZeroScore]
       ELSE [raised |-> FALSE,
             sim |-> [sgn |-> Sign(Dot(a, b)),
                      num |-> Dot(a, b) * Dot(a, b),
                      den |-> Norm2(a) * Norm2(b)]]

\* _cosine_similarity: [raised (np.dot's ValueError on unequal lengths), sim]
_cosine_similarity(a, b) ==
  IF Norm2(a) * Norm2(b) = 0
  THEN [raised |-> FALSE, sim |-> ZeroScore]
  ELSE IF Len(a) # Len(b)
       THEN [raised |-> TRUE, sim |-> ZeroScore]
       ELSE [raised |-> FALSE,
             sim |-> [sgn |-> Sign(Dot(a, b)),
                      num |-> Dot(a, b) * Dot(a, b),
                      den |-> Norm2(a) * Norm2(b)]]

(***************************************************************************)
(* score_chunks_by_similarity (retrieval.py 197-230).                      *)
(***************************************************************************)
\* line 220: np.array(emb_list, dtype=np.float32) raises TypeError/ValueError
ConversionFails(emb_list) == \E i \in 1..Len(emb_list) : emb_list[i].t # "num"
AsVector(emb_list) == [i \in 1..Len(emb_list) |-> emb_list[i].v]

\* a loop without line 215 for an empty list
SkippedKeepsEmpty(ch) ==
  LET emb_list == _normalize_embedding(ch.embedding)
  IN IF emb_list = <<>> THEN TRUE
     ELSE ConversionFails(emb_list[1])

\* lines 214-223: the chunk is skipped
Skipped(ch) ==
  LET emb_list == _normalize_embedding(ch.embedding)
  IN IF emb_list = <<>> THEN TRUE
     ELSE IF emb_list[1] = <<>> THEN TRUE
     ELSE ConversionFails(emb_list[1])

\* lines 214, 220: the vector of a chunk that is not skipped
c_vec(ch) == AsVector(_normalize_embedding(ch.embedding)[1])

\* a sort that leaves pairs of equal score in reverse encounter order
sorted_position_unstable(pairs, i) ==
  1 + Cardinality({ j \in 1..Len(pairs) :
                      \/ ~ScoreGE(pairs[i].score, pairs[j].score)
                      \/ (j > i /\ ScoreEQ(pairs[j].score, pairs[i].score)) })

\* line 229: where sorted(..., reverse=True) puts pair i: behind the
\* pairs that score higher and behind the earlier pairs that score the same
\* (Python's sort is stable, also with reverse=True)
sorted_position(pairs, i) ==
  1 + Cardinality({ j \in 1..Len(pairs) :
                      \/ ~ScoreGE(pairs[i].score, pairs[j].score)
                      \/ (j < i /\ ScoreEQ(pairs[j].score, pairs[i].score)) })

\* line 229: sorted(scored, key=lambda pair: pair[1], reverse=True)
sorted_reverse(pairs) ==
  [p \in 1..Len(pairs) |->
     pairs[CHOOSE i \in 1..Len(pairs) : sorted_position(pairs, i) = p]]

\* lines 209-226: the pairs the loop appends, in the order of the pool
scored_pairs(q_vec, pool) ==
  LET kept == SelectSeq(pool, LAMBDA ch : ~Skipped(ch))
  IN [i \in 1..Len(kept) |->
        [chunk |-> kept[i],
         score |-> _cosine_similarity(q_vec, c_vec(kept[i])).sim]]

\* line 214 or line 225 raises for some chunk
score_raises(q_vec, pool) ==
  \E i \in 1..Len(pool) :
    IF normalize_raises(pool[i].embedding) THEN TRUE
    ELSE IF Skipped(pool[i]) THEN FALSE
    ELSE _cosine_similarity(q_vec, c_vec(pool[i])).raised

\* score_chunks_by_similarity as a function of its arguments:
\* [raised, val (the returned list)]
score_chunks_by_similarity(q_vec, pool) ==
  IF score_raises(q_vec, pool)
  THEN [raised |-> TRUE, val |-> <<>>]
  ELSE [raised |-> FALSE, val |-> sorted_reverse(scored_pairs(q_vec, pool))]

(***************************************************************************)
(* load_chunks (retrieval.py 44-140) for a call without slug filter, and   *)
(* retrieve_top_k (retrieval.py 233-267).                                  *)
(***************************************************************************)
\* line 238
preload_limit == 2000

Min(a, b) == IF a < b THEN a ELSE b
Max(a, b) == IF a > b THEN a ELSE b

\* a query without the filter of line 111
load_chunks_any_flag(stored, limit) ==
  LET kept == SelectSeq(stored, LAMBDA row : row.embedding.kind # "None")
  IN IF limit > 0 THEN SubSeq(kept, 1, Min(limit, Len(kept))) ELSE kept

\* lines 107-117: embedding IS NOT NULL, quality_flag = 'ok', LIMIT
load_chunks(stored, limit) ==
  LET kept == SelectSeq(stored, LAMBDA row :
                  row.embedding.kind # "None" /\ row.quality_flag = "ok")
  IN IF limit > 0 THEN SubSeq(kept, 1, Min(limit, Len(kept))) ELSE kept

\* Python's truth of an Optional[str]: None and "" are false
TruthyStr(opt) == IF opt = <<>> THEN FALSE ELSE opt[1] # ""

\* Python's truth of an Optional[List[str]]: None and [] are false
TruthyList(opt) == IF opt = <<>> THEN FALSE ELSE opt[1] # <<>>

\* lines 71-101: the ids of the documents the filter names; slugs comes
\* before slug
doc_ids(table, sl, sls) ==
  IF TruthyList(sls)
  THEN LET named == SelectSeq(table, LAMBDA row :
                      \E n \in 1..Len(sls[1]) : sls[1][n] = row.slug)
       IN [n \in 1..Len(named) |-> named[n].id]
  ELSE IF TruthyStr(sl)
       THEN LET named == SelectSeq(table, LAMBDA row : row.slug = sl[1])
            IN [n \in 1..Len(named) |-> named[n].id]
       ELSE <<>>

\* lines 104-105: the chunks of the named documents, or all chunks
InDocuments(stored, ids_found) ==
  IF ids_found # <<>>
  THEN SelectSeq(stored, LAMBDA row :
         \E n \in 1..Len(ids_found) : ids_found[n] = row.document_id)
  ELSE stored

\* a filter that names no stored document and is then dropped
load_chunks_of_or_all(table, stored, sl, sls, limit) ==
  load_chunks(InDocuments(stored, doc_ids(table, sl, sls)), limit)

\* lines 44-140: load_chunks(slug, slugs, limit) on the documents table
\* `table` and the chunks table `stored`
load_chunks_of(table, stored, sl, sls, limit) ==
  IF (TruthyList(sls) \/ TruthyStr(sl)) /\ doc_ids(table, sl, sls) = <<>>
  THEN <<>>
  ELSE load_chunks(InDocuments(stored, doc_ids(table, sl, sls)), limit)

\* seq[:n], which for n < 0 drops the last -n entries
PySlice(seq, n) ==
  IF n >= 0 THEN SubSeq(seq, 1, Min(n, Len(seq)))
  ELSE SubSeq(seq, 1, Max(Len(seq) + n, 0))

\* line 265
top_slice(pairs, n) == PySlice(pairs, n)

StoredEmbeddings ==
  { RawNone,
    RawList(<<Num(1), Num(0)>>),
    RawList(<<Num(2), Num(0)>>),
    RawStr(<<"[", "1", ",", "1", "]">>),
    RawStr(<<"[", "1">>),
    RawStr(<<"[", "]">>),
    RawList(<<NonNum, Num(1)>>),
    RawList(<<Num(1)>>) }

Rows ==
  { [embedding |-> e, quality_flag |-> "ok"] : e \in StoredEmbeddings }
  \cup { [embedding |-> RawList(<<Num(1), Num(0)>>), quality_flag |-> "draft"] }

KValues == {0 - 1, 0, 1, 2, 5}
QueryVectors == { <<1, 0>>, <<1, 2>>, <<0, 0>> }

RetrInit ==
  /\ store \in { [i \in 1..Len(f) |->
                    [id |-> i, document_id |-> 1, text |-> <<"t">>,
                     embedding |-> f[i].embedding,
                     quality_flag |-> f[i].quality_flag]] :
                  f \in SeqsUpTo(Rows, MaxPool) }
  /\ k \in KValues
  /\ loaded = <<>>
  /\ query_embedding = <<>>
  /\ score_i = 1
  /\ scored = <<>>
  /\ scored_chunks = <<>>
  /\ top = <<>>
  /\ retr_pc = "call"

\* an empty pool for which the query is embedded all the same
RetrLoadNoneEmbeds ==
  /\ retr_pc = "call"
  /\ load_chunks_of(documents, store, slug, slugs, preload_limit) = <<>>
  /\ top' = <<>>
  /\ retr_pc' = "returned"
  /\ embed_calls' = Append(embed_calls, query)
  /\ UNCHANGED <<store, k, loaded, query_embedding, score_i, scored, scored_chunks>>
  /\ UNCHANGED <<documents, slug, slugs, query>>
  /\ UNCHANGED <<split_vars, build_vars, app_vars, ing_vars>>

\* lines 257-260: nothing loaded, [] is returned
RetrLoadNone ==
  /\ retr_pc = "call"
  /\ load_chunks_of(documents, store, slug, slugs, preload_limit) = <<>>
  /\ top' = <<>>
  /\ retr_pc' = "returned"
  /\ UNCHANGED <<store, k, loaded, query_embedding, score_i, scored, scored_chunks>>
  /\ UNCHANGED <<split_vars, build_vars, app_vars, scope_vars, ing_vars>>

\* line 257
RetrLoad ==
  /\ retr_pc = "call"
  /\ load_chunks_of(documents, store, slug, slugs, preload_limit) # <<>>
  /\ loaded' = load_chunks_of(documents, store, slug, slugs, preload_limit)
  /\ retr_pc' = "embed"
  /\ UNCHANGED <<store, k, query_embedding, score_i, scored, scored_chunks, top>>
  /\ UNCHANGED <<split_vars, build_vars, app_vars, scope_vars, ing_vars>>

\* line 257 when the store read raises (load_chunks has no try): the error
\* leaves retrieve_top_k, which has no try either
RetrLoadRaises ==
  /\ retr_pc = "call"
  /\ retr_pc' = "raised_store"
  /\ UNCHANGED <<store, k, loaded, query_embedding, score_i, scored, scored_chunks, top>>
  /\ UNCHANGED <<split_vars, build_vars, app_vars, scope_vars, ing_vars>>

\* an embedding failure that is swallowed: [] is returned
RetrEmbedCaught ==
  /\ retr_pc = "embed"
  /\ top' = <<>>
  /\ retr_pc' = "returned"
  /\ UNCHANGED <<store, k, loaded, query_embedding, score_i, scored, scored_chunks>>
  /\ embed_calls' = Append(embed_calls, query)
  /\ UNCHANGED <<documents, slug, slugs, query>>
  /\ UNCHANGED <<split_vars, build_vars, app_vars, ing_vars>>

\* line 262 when the embedding call raises (embed_query has no try)
RetrEmbedRaises ==
  /\ retr_pc = "embed"
  /\ retr_pc' = "raised_embed"
  /\ UNCHANGED <<store, k, loaded, query_embedding, score_i, scored, scored_chunks, top>>
  /\ embed_calls' = Append(embed_calls, query)
  /\ UNCHANGED <<documents, slug, slugs, query>>
  /\ UNCHANGED <<split_vars, build_vars, app_vars, ing_vars>>

\* line 262: the provider answers with a vector
RetrEmbed ==
  /\ retr_pc = "embed"
  /\ \E q \in QueryVectors : query_embedding' = q
  /\ retr_pc' = "score"
  /\ UNCHANGED <<store, k, loaded, score_i, scored, scored_chunks, top>>
  /\ embed_calls' = Append(embed_calls, query)
  /\ UNCHANGED <<documents, slug, slugs, query>>
  /\ UNCHANGED <<split_vars, build_vars, app_vars, ing_vars>>

\* lines 213-223: a chunk without a usable vector is skipped
ScoreSkip ==
  /\ retr_pc = "score"
  /\ score_i <= Len(loaded)
  /\ ~normalize_raises(loaded[score_i].embedding)
  /\ Skipped(loaded[score_i])
  /\ score_i' = score_i + 1
  /\ UNCHANGED <<store, k, loaded, query_embedding, scored, scored_chunks, top, retr_pc>>
  /\ UNCHANGED <<split_vars, build_vars, app_vars, scope_vars, ing_vars>>

\* line 214 when json.loads raises a ValueError that is no JSONDecodeError:
\* it is caught nowhere and leaves score_chunks_by_similarity
ScoreDecodeRaise ==
  /\ retr_pc = "score"
  /\ score_i <= Len(loaded)
  /\ normalize_raises(loaded[score_i].embedding)
  /\ retr_pc' = "raised"
  /\ UNCHANGED <<store, k, loaded, query_embedding, score_i, scored, scored_chunks, top>>
  /\ UNCHANGED <<split_vars, build_vars, app_vars, scope_vars, ing_vars>>

\* line 225 when np.dot raises: the ValueError is caught nowhere and leaves
\* score_chunks_by_similarity and retrieve_top_k
ScoreRaise ==
  /\ retr_pc = "score"
  /\ score_i <= Len(loaded)
  /\ ~normalize_raises(loaded[score_i].embedding)
  /\ ~Skipped(loaded[score_i])
  /\ _cosine_similarity(query_embedding, c_vec(loaded[score_i])).raised
  /\ retr_pc' = "raised"
  /\ UNCHANGED <<store, k, loaded, query_embedding, score_i, scored, scored_chunks, top>>
  /\ UNCHANGED <<split_vars, build_vars, app_vars, scope_vars, ing_vars>>

\* lines 225-226
ScoreAppend ==
  /\ retr_pc = "score"
  /\ score_i <= Len(loaded)
  /\ ~normalize_raises(loaded[score_i].embedding)
  /\ ~Skipped(loaded[score_i])
  /\ ~_cosine_similarity(query_embedding, c_vec(loaded[score_i])).raised
  /\ scored' = Append(scored,
       [chunk |-> loaded[score_i],
        score |-> _cosine_similarity(query_embedding, c_vec(loaded[score_i])).sim])
  /\ score_i' = score_i + 1
  /\ UNCHANGED <<store, k, loaded, query_embedding, scored_chunks, top, retr_pc>>
  /\ UNCHANGED <<split_vars, build_vars, app_vars, scope_vars, ing_vars>>

\* lines 229-230 and 263
ScoreSort ==
  /\ retr_pc = "score"
  /\ score_i > Len(loaded)
  /\ scored_chunks' = sorted_reverse(scored)
  /\ retr_pc' = "slice"
  /\ UNCHANGED <<store, k, loaded, query_embedding, score_i, scored, top>>
  /\ UNCHANGED <<split_vars, build_vars, app_vars, scope_vars, ing_vars>>

\* lines 265-267
RetrReturn ==
  /\ retr_pc = "slice"
  /\ top' = top_slice(scored_chunks, k)
  /\ retr_pc' = "returned"
  /\ UNCHANGED <<store, k, loaded, query_embedding, score_i, scored, scored_chunks>>
  /\ UNCHANGED <<split_vars, build_vars, app_vars, scope_vars, ing_vars>>

RetrNext ==
  \/ RetrLoadNone \/ RetrLoad \/ RetrLoadRaises
  \/ RetrEmbed \/ RetrEmbedRaises
  \/ ScoreSkip \/ ScoreRaise \/ ScoreAppend \/ ScoreSort
  \/ RetrReturn

(***************************************************************************)
(* score_chunks_by_similarity called on its own (retrieval.py 197-230):    *)
(* the pool is whatever list of Chunk objects the caller hands over.       *)
(***************************************************************************)
ScoreEmbeddings ==
  { RawNone,
    RawList(<<Num(1), Num(0)>>),
    RawList(<<Num(0), Num(1)>>),
    RawList(<<Num(0), Num(0)>>),
    RawList(<<Num(1)>>),
    RawList(<<NonNum, Num(1)>>),
    RawStr(<<"[", "1", ",", " ", "0", "]">>),
    RawStr(<<"[", "9", ",", "1", "]">>),
    RawStr(<<"[", "]">>),
    RawStr(<<"[", "1">>),
    RawStr(<<"7">>) }

ScoreRows ==
  { [embedding |-> e, quality_flag |-> "ok"] : e \in ScoreEmbeddings }
  \cup { [embedding |-> RawList(<<Num(1), Num(0)>>), quality_flag |-> "draft"] }

\* the Chunk objects of a pool: the i-th has id i
Pool(f) ==
  [i \in 1..Len(f) |->
     [id |-> i, document_id |-> 1, text |-> <<"t">>,
      embedding |-> f[i].embedding, quality_flag |-> f[i].quality_flag]]

ScoreInit ==
  /\ store = <<>>
  /\ k = 0
  /\ loaded \in { Pool(f) : f \in SeqsUpTo(ScoreRows, MaxPool) }
  /\ query_embedding \in QueryVectors
  /\ score_i = 1
  /\ scored = <<>>
  /\ scored_chunks = <<>>
  /\ top = <<>>
  /\ retr_pc = "score"

\* the loop of lines 213-226 and the sort of line 229; retr_pc = "slice" is
\* the return of line 230.  No stored text of ScoreEmbeddings or of
\* StoredEmbeddings makes json.loads raise, so ScoreDecodeRaise is never
\* enabled here; NormalizeNext has it.
ScoreNext == ScoreSkip \/ ScoreRaise \/ ScoreAppend \/ ScoreSort

(***************************************************************************)
(* _normalize_embedding (retrieval.py 166-194) on every kind of stored     *)
(* value, applied where the code applies it: by the scorer's loop, to each *)
(* candidate of the pool.                                                  *)
(***************************************************************************)
\* "[11...1]" with one digit more than int() converts
LongIntegerArray ==
  <<"[">> \o [i \in 1..(int_max_str_digits + 1) |-> "1"] \o <<"]">>

NormalizeInputs ==
  { RawNone,
    RawOther,
    RawList(<<>>),
    RawList(<<Num(1), Num(0)>>),
    RawList(<<NonNum, Num(1)>>),
    RawTuple(<<Num(1)>>),
    RawTuple(<<Num(0), Num(1)>>),
    RawStr(<<"[", "1", ",", " ", "0", "]">>),
    RawStr(<<" ", "[", "2", ",", "-", "1", "]", "\n">>),
    RawStr(<<"[", " ", "]">>),
    RawStr(<<"[", "1">>),
    RawStr(<<"[", "1", ",", "]">>),
    RawStr(<<>>),
    RawStr(<<"7">>),
    RawStr(<<"n", "u", "l", "l">>),
    RawStr(<<"{", "}">>),
    RawStr(<<"\"", "a", "\"">>),
    RawStr(LongIntegerArray) }

NormalizeInit ==
  /\ store = <<>>
  /\ k = 0
  /\ loaded \in { Pool(f) :
                    f \in SeqsUpTo({ [embedding |-> e, quality_flag |-> "ok"] :
                                       e \in NormalizeInputs }, MaxNormalized) }
  /\ query_embedding = <<1, 0>>
  /\ score_i = 1
  /\ scored = <<>>
  /\ scored_chunks = <<>>
  /\ top = <<>>
  /\ retr_pc = "score"

(***************************************************************************)
(* POST /rag/answer (src/app/main.py 62-69, 134-252).  A mode is the text  *)
(* of its name.                                                            *)
(***************************************************************************)
Synthesis == <<"s", "y", "n", "t", "h", "e", "s", "i", "s">>
Extract == <<"e", "x", "t", "r", "a", "c", "t">>
Bullets == <<"b", "u", "l", "l", "e", "t", "s">>
Short == <<"s", "h", "o", "r", "t">>

\* line 69: mode: Literal["synthesis", "extract"]
AnswerModes == {Synthesis, Extract}

\* lines 145-148 and 249-252: the JSON of a 200 response
Answered(answer, citations) ==
  [status |-> 200, answer |-> answer, citations |-> citations]

\* a response without answer: 422 when the body fails validation, 500 when
\* the handler raises
Refused(status) == [status |-> status, answer |-> "", citations |-> <<>>]

NoResponse == [status |-> 0, answer |-> "", citations |-> <<>>]

\* line 146, the fixed answer (in Russian in the source)
NO_FRAGMENT_ANSWER == "no fragment found"

\* line 247, the text the chat-completion model wrote
COMPLETION == "completion"

\* lines 178-188: one citation per returned pair, numbered from 1
CitationsOf(pairs) ==
  [j \in 1..Len(pairs) |-> [index |-> j, chunk_id |-> pairs[j].chunk.id]]

\* the locals of retrieve_top_k are gone when it is left
RetrLeft ==
  /\ k' = 0
  /\ loaded' = <<>>
  /\ query_embedding' = <<>>
  /\ score_i' = 1
  /\ scored' = <<>>
  /\ scored_chunks' = <<>>
  /\ top' = <<>>
  /\ retr_pc' = "idle"

\* lines 62-69: the body fails validation, FastAPI answers 422 and does not
\* call rag_answer
AnswerReject ==
  /\ answer_pc = "received"
  /\ body.mode \notin AnswerModes
  /\ response' = Refused(422)
  /\ answer_pc' = "rejected"
  /\ UNCHANGED <<body, chat_calls, CHAT_MODES, bot_pc, update, reply>>
  /\ UNCHANGED <<split_vars, build_vars, retr_vars, scope_vars, ing_vars>>

\* lines 136-142: rag_answer calls retrieve_top_k with k = body.top_k
AnswerCall ==
  /\ answer_pc = "received"
  /\ body.mode \in AnswerModes
  /\ k' = body.top_k
  /\ loaded' = <<>>
  /\ query_embedding' = <<>>
  /\ score_i' = 1
  /\ scored' = <<>>
  /\ scored_chunks' = <<>>
  /\ top' = <<>>
  /\ retr_pc' = "call"
  /\ answer_pc' = "retrieving"
  /\ UNCHANGED <<store, body, response, chat_calls, CHAT_MODES, bot_pc, update, reply>>
  /\ embed_calls' = <<>>
  /\ UNCHANGED <<documents, slug, slugs, query>>
  /\ UNCHANGED <<split_vars, build_vars, ing_vars>>

\* line 136 when retrieve_top_k raises: rag_answer has no try, FastAPI
\* answers 500
AnswerRetrieveRaised ==
  /\ answer_pc = "retrieving"
  /\ retr_pc \in {"raised", "raised_store", "raised_embed"}
  /\ response' = Refused(500)
  /\ answer_pc' = "failed"
  /\ RetrLeft
  /\ UNCHANGED <<store, body, chat_calls, CHAT_MODES, bot_pc, update, reply>>
  /\ UNCHANGED <<split_vars, build_vars, scope_vars, ing_vars>>

\* a handler that asks the chat-completion model also when nothing was found
AnswerNoFragmentAsksModel ==
  /\ answer_pc = "retrieving"
  /\ retr_pc = "returned"
  /\ top = <<>>
  /\ chat_calls' = chat_calls + 1
  /\ response' = Answered(COMPLETION, <<>>)
  /\ answer_pc' = "returned"
  /\ RetrLeft
  /\ UNCHANGED <<store, body, CHAT_MODES, bot_pc, update, reply>>
  /\ UNCHANGED <<split_vars, build_vars, scope_vars, ing_vars>>

\* lines 144-148: nothing was found, the fixed answer is returned
AnswerNoFragment ==
  /\ answer_pc = "retrieving"
  /\ retr_pc = "returned"
  /\ top = <<>>
  /\ response' = Answered(NO_FRAGMENT_ANSWER, <<>>)
  /\ answer_pc' = "returned"
  /\ RetrLeft
  /\ UNCHANGED <<store, body, chat_calls, CHAT_MODES, bot_pc, update, reply>>
  /\ UNCHANGED <<split_vars, build_vars, scope_vars, ing_vars>>

\* lines 153-159 when the read of the documents table raises
AnswerMetaRaises ==
  /\ answer_pc = "retrieving"
  /\ retr_pc = "returned"
  /\ top # <<>>
  /\ response' = Refused(500)
  /\ answer_pc' = "failed"
  /\ RetrLeft
  /\ UNCHANGED <<store, body, chat_calls, CHAT_MODES, bot_pc, update, reply>>
  /\ UNCHANGED <<split_vars, build_vars, scope_vars, ing_vars>>

\* lines 227-245 when the chat-completion call raises
AnswerChatRaises ==
  /\ answer_pc = "retrieving"
  /\ retr_pc = "returned"
  /\ top # <<>>
  /\ chat_calls' = chat_calls + 1
  /\ response' = Refused(500)
  /\ answer_pc' = "failed"
  /\ RetrLeft
  /\ UNCHANGED <<store, body, CHAT_MODES, bot_pc, update, reply>>
  /\ UNCHANGED <<split_vars, build_vars, scope_vars, ing_vars>>

\* lines 150-252: the documents are read, the model is asked once, its text
\* is returned with the citations (none when include_meta is false)
AnswerGenerate ==
  /\ answer_pc = "retrieving"
  /\ retr_pc = "returned"
  /\ top # <<>>
  /\ chat_calls' = chat_calls + 1
  /\ response' = Answered(COMPLETION,
                          IF body.include_meta THEN CitationsOf(top) ELSE <<>>)
  /\ answer_pc' = "returned"
  /\ RetrLeft
  /\ UNCHANGED <<store, body, CHAT_MODES, bot_pc, update, reply>>
  /\ UNCHANGED <<split_vars, build_vars, scope_vars, ing_vars>>

AnswerNext ==
  \/ AnswerReject \/ AnswerCall \/ AnswerRetrieveRaised
  \/ AnswerNoFragment \/ AnswerMetaRaises \/ AnswerChatRaises \/ AnswerGenerate

\* the bodies an API client sends: top_k, include_meta, mode
AnswerTopK == {0, 1, 5}
RAGAnswerRequest(top_k, include_meta, md) ==
  [top_k |-> top_k, include_meta |-> include_meta, mode |-> md]

\* the chunks tables of the service
AnswerEmbeddings ==
  { RawNone,
    RawList(<<Num(1), Num(0)>>),
    RawList(<<Num(1)>>),
    RawStr(<<"[", "1">>) }

AnswerStores ==
  { Pool(f) : f \in SeqsUpTo({ [embedding |-> e, quality_flag |-> "ok"] :
                                e \in AnswerEmbeddings }, MaxStore) }

\* retrieve_top_k is not running
RetrNotCalled ==
  /\ k = 0
  /\ loaded = <<>>
  /\ query_embedding = <<>>
  /\ score_i = 1
  /\ scored = <<>>
  /\ scored_chunks = <<>>
  /\ top = <<>>
  /\ retr_pc = "idle"

BotIdle ==
  /\ CHAT_MODES = <<>>
  /\ bot_pc = "off"
  /\ update = [kind |-> "none", chat |-> 0]
  /\ reply = [kind |-> "none", chat |-> 0, status |-> 0]

AnswerInit ==
  /\ store \in AnswerStores
  /\ RetrNotCalled
  /\ body \in { RAGAnswerRequest(n, m, md) :
                  n \in AnswerTopK, m \in BOOLEAN, md \in {Synthesis, Extract, Bullets} }
  /\ answer_pc = "received"
  /\ response = NoResponse
  /\ chat_calls = 0
  /\ BotIdle

(***************************************************************************)
(* The Telegram bot (src/bot.py).  Updates are handled one at a time, and  *)
(* requests.post blocks the handler until the service has answered.        *)
(***************************************************************************)
Chats == {1, 2}

UpperCase == <<"A", "B", "C", "D", "E", "F", "G", "H", "I", "J", "K", "L", "M",
               "N", "O", "P", "Q", "R", "S", "T", "U", "V", "W", "X", "Y", "Z">>
LowerCase == <<"a", "b", "c", "d", "e", "f", "g", "h", "i", "j", "k", "l", "m",
               "n", "o", "p", "q", "r", "s", "t", "u", "v", "w", "x", "y", "z">>

\* str.lower()
lower(s) ==
  [i \in 1..Len(s) |->
     IF \E n \in 1..26 : UpperCase[n] = s[i]
     THEN LowerCase[CHOOSE n \in 1..26 : UpperCase[n] = s[i]]
     ELSE s[i]]

\* line 120: the modes /mode accepts
BotModes == {Synthesis, Extract, Bullets, Short}

\* what a user may write behind /mode
ModeArgs == BotModes \cup { <<"S", "h", "o", "r", "t">>, <<"f", "a", "s", "t">> }

\* what a user may send as a message or as an inline query
Texts == { <<>>, <<" ">>, <<"q">> }

\* CHAT_MODES.get(chat_id, "synthesis"); an entry is <<>> or <<mode>>
ModeOfChat(c) == IF CHAT_MODES[c] = <<>> THEN Synthesis ELSE CHAT_MODES[c][1]

\* lines 32-41
_build_payload(md) == RAGAnswerRequest(5, TRUE, md)

Sent(kind, c, status) == [kind |-> kind, chat |-> c, status |-> status]

\* lines 73-84
start(c) ==
  /\ bot_pc = "idle"
  /\ CHAT_MODES' = [CHAT_MODES EXCEPT ![c] = <<Synthesis>>]
  /\ reply' = Sent("start", c, 0)
  /\ UNCHANGED <<body, answer_pc, response, chat_calls, bot_pc, update>>
  /\ UNCHANGED <<split_vars, build_vars, retr_vars, scope_vars, ing_vars>>

\* lines 87-98
help_cmd(c) ==
  /\ bot_pc = "idle"
  /\ reply' = Sent("help", c, 0)
  /\ UNCHANGED <<body, answer_pc, response, chat_calls, CHAT_MODES, bot_pc, update>>
  /\ UNCHANGED <<split_vars, build_vars, retr_vars, scope_vars, ing_vars>>

\* lines 105-117: /mode without argument shows the current mode
mode_cmd_show(c) ==
  /\ bot_pc = "idle"
  /\ reply' = Sent("mode", c, 0)
  /\ UNCHANGED <<body, answer_pc, response, chat_calls, CHAT_MODES, bot_pc, update>>
  /\ UNCHANGED <<split_vars, build_vars, retr_vars, scope_vars, ing_vars>>

\* lines 119-124: an unknown mode is refused
mode_cmd_unknown(c, arg) ==
  /\ bot_pc = "idle"
  /\ lower(strip(arg)) \notin BotModes
  /\ reply' = Sent("mode_unknown", c, 0)
  /\ UNCHANGED <<body, answer_pc, response, chat_calls, CHAT_MODES, bot_pc, update>>
  /\ UNCHANGED <<split_vars, build_vars, retr_vars, scope_vars, ing_vars>>

\* lines 119-127: one of the four modes is stored for the chat
mode_cmd_set(c, arg) ==
  /\ bot_pc = "idle"
  /\ lower(strip(arg)) \in BotModes
  /\ CHAT_MODES' = [CHAT_MODES EXCEPT ![c] = <<lower(strip(arg))>>]
  /\ reply' = Sent("mode_set", c, 0)
  /\ UNCHANGED <<body, answer_pc, response, chat_calls, bot_pc, update>>
  /\ UNCHANGED <<split_vars, build_vars, retr_vars, scope_vars, ing_vars>>

\* lines 134-136 and 170-172: a message or an inline query without text is
\* dropped
handle_empty(c, text) ==
  /\ bot_pc = "idle"
  /\ strip(text) = <<>>
  /\ reply' = Sent("none", c, 0)
  /\ UNCHANGED <<body, answer_pc, response, chat_calls, CHAT_MODES, bot_pc, update>>
  /\ UNCHANGED <<split_vars, build_vars, retr_vars, scope_vars, ing_vars>>

\* lines 134-150: the question is posted with the mode of the chat
handle_question(c, text) ==
  /\ bot_pc = "idle"
  /\ strip(text) # <<>>
  /\ body' = _build_payload(ModeOfChat(c))
  /\ answer_pc' = "received"
  /\ response' = NoResponse
  /\ chat_calls' = 0
  /\ update' = [kind |-> "message", chat |-> c]
  /\ bot_pc' = "posted"
  /\ UNCHANGED <<CHAT_MODES, reply>>
  /\ UNCHANGED <<split_vars, build_vars, retr_vars, scope_vars, ing_vars>>

\* lines 170-177: the inline query is posted with mode "short"
handle_inline_query(c, text) ==
  /\ bot_pc = "idle"
  /\ strip(text) # <<>>
  /\ body' = _build_payload(Short)
  /\ answer_pc' = "received"
  /\ response' = NoResponse
  /\ chat_calls' = 0
  /\ update' = [kind |-> "inline", chat |-> c]
  /\ bot_pc' = "posted"
  /\ UNCHANGED <<CHAT_MODES, reply>>
  /\ UNCHANGED <<split_vars, build_vars, retr_vars, scope_vars, ing_vars>>

\* the service has answered the request
Responded == answer_pc \in {"returned", "rejected", "failed"}

\* lines 151-161: raise_for_status raises for 4xx and 5xx, the error is sent
\* to the chat; a 200 is formatted and sent
handle_question_reply ==
  /\ bot_pc = "posted"
  /\ update.kind = "message"
  /\ Responded
  /\ reply' = IF response.status = 200
              THEN Sent("answer", update.chat, response.status)
              ELSE Sent("error", update.chat, response.status)
  /\ bot_pc' = "idle"
  /\ answer_pc' = "idle"
  /\ update' = [kind |-> "none", chat |-> 0]
  /\ UNCHANGED <<body, response, chat_calls, CHAT_MODES>>
  /\ UNCHANGED <<split_vars, build_vars, retr_vars, scope_vars, ing_vars>>

\* lines 178-201: for 4xx and 5xx nothing is answered; a 200 becomes the one
\* inline result
handle_inline_query_reply ==
  /\ bot_pc = "posted"
  /\ update.kind = "inline"
  /\ Responded
  /\ reply' = IF response.status = 200
              THEN Sent("inline_answer", update.chat, response.status)
              ELSE Sent("dropped", update.chat, response.status)
  /\ bot_pc' = "idle"
  /\ answer_pc' = "idle"
  /\ update' = [kind |-> "none", chat |-> 0]
  /\ UNCHANGED <<body, response, chat_calls, CHAT_MODES>>
  /\ UNCHANGED <<split_vars, build_vars, retr_vars, scope_vars, ing_vars>>

BotNext ==
  \/ \E c \in Chats : start(c)
  \/ \E c \in Chats : help_cmd(c)
  \/ \E c \in Chats : mode_cmd_show(c)
  \/ \E c \in Chats, arg \in ModeArgs : mode_cmd_unknown(c, arg)
  \/ \E c \in Chats, arg \in ModeArgs : mode_cmd_set(c, arg)
  \/ \E c \in Chats, text \in Texts : handle_empty(c, text)
  \/ \E c \in Chats, text \in Texts : handle_question(c, text)
  \/ \E c \in Chats, text \in Texts : handle_inline_query(c, text)
  \/ handle_question_reply
  \/ handle_inline_query_reply

\* the chunks tables of the service the bot talks to
BotStores ==
  { <<>>,
    Pool(<< [embedding |-> RawList(<<Num(1), Num(0)>>), quality_flag |-> "ok"] >>),
    Pool(<< [embedding |-> RawStr(<<"[", "1">>), quality_flag |-> "ok"],
            [embedding |-> RawList(<<Num(1)>>), quality_flag |-> "ok"] >>) }

\* line 26: no chat has a mode; no request is under way
BotInit ==
  /\ store \in BotStores
  /\ RetrNotCalled
  /\ body = _build_payload(Synthesis)
  /\ answer_pc = "idle"
  /\ response = NoResponse
  /\ chat_calls = 0
  /\ CHAT_MODES = [c \in Chats |-> <<>>]
  /\ bot_pc = "idle"
  /\ update = [kind |-> "none", chat |-> 0]
  /\ reply = Sent("none", 0, 0)

\* the service and the bot are not running
AppIdle ==
  /\ body = RAGAnswerRequest(5, TRUE, Synthesis)
  /\ answer_pc = "idle"
  /\ response = NoResponse
  /\ chat_calls = 0
  /\ BotIdle

(***************************************************************************)
(* ingest_from_manifest (src/ingest/auto/ingest_from_manifest.py).  A      *)
(* manifest entry is the dict of the YAML file: id, slug and the optional  *)
(* version; a documents row has id, slug and version.                      *)
(***************************************************************************)
Slugs == {"a", "b"}
Versions == {1, 2}

\* the "version" an entry may carry: none, 0, 1 or 2
EntryVersions == { <<>>, <<0>>, <<1>>, <<2>> }

ManifestEntry(id, sl, ver) == [id |-> id, slug |-> sl, version |-> ver]

DocumentRow(id, sl, ver) == [id |-> id, slug |-> sl, version |-> ver]

\* lines 57 and 99: d.get("version", 1) or 1
VersionOf(d) ==
  IF d.version = <<>> THEN 1
  ELSE IF d.version[1] = 0 THEN 1 ELSE d.version[1]

\* lines 60-68: the rows with this slug and this version
DocumentsWith(table, sl, ver) ==
  SelectSeq(table, LAMBDA row : row.slug = sl /\ row.version = ver)

\* line 68: resp.data is non-empty
exists_in_supabase(table, d) == DocumentsWith(table, d.slug, VersionOf(d)) # <<>>

\* lines 154-164: ids, when given, keeps the entries named by id or by slug
FilterByIds(entries, names) ==
  IF names = <<>> THEN entries
  ELSE SelectSeq(entries, LAMBDA d :
         \E n \in 1..Len(names[1]) : names[1][n] = d.id \/ names[1][n] = d.slug)

\* lines 152-164: the manifest is loaded and filtered
ManLoad ==
  /\ man_pc = "call"
  /\ docs' = (IF ids # <<>> /\ ids[1] # <<>> THEN FilterByIds(manifest, ids)
              ELSE manifest)
  /\ man_pc' = "files"
  /\ UNCHANGED <<manifest, ids, mode, supa_check, new_docs, man_i, ingested>>
  /\ UNCHANGED <<split_vars, build_vars, retr_vars, app_vars, scope_vars, book_vars, emb_vars>>

\* line 166: a file of the manifest is missing, FileNotFoundError
ManFilesMissing ==
  /\ man_pc = "files"
  /\ docs # <<>>
  /\ man_pc' = "raised"
  /\ UNCHANGED <<manifest, ids, mode, docs, supa_check, new_docs, man_i, ingested>>
  /\ UNCHANGED <<split_vars, build_vars, retr_vars, app_vars, scope_vars, book_vars, emb_vars>>

\* line 166: all files exist
ManFilesExist ==
  /\ man_pc = "files"
  /\ man_i' = 1
  /\ man_pc' = "check"
  /\ UNCHANGED <<manifest, ids, mode, docs, supa_check, new_docs, ingested>>
  /\ UNCHANGED <<split_vars, build_vars, retr_vars, app_vars, scope_vars, book_vars, emb_vars>>

\* lines 55-80: one turn of the loop of check_in_supabase; out[slug] is
\* written, whatever it held
ManCheckOne ==
  /\ man_pc = "check"
  /\ man_i <= Len(docs)
  /\ supa_check' = [supa_check EXCEPT ![docs[man_i].slug] =
                      <<exists_in_supabase(documents, docs[man_i])>>]
  /\ man_i' = man_i + 1
  /\ UNCHANGED <<manifest, ids, mode, docs, new_docs, ingested, man_pc>>
  /\ UNCHANGED <<split_vars, build_vars, retr_vars, app_vars, scope_vars, book_vars, emb_vars>>

\* lines 171-173: the dry run
ManDryRun ==
  /\ man_pc = "check"
  /\ man_i > Len(docs)
  /\ mode = "check"
  /\ man_pc' = "returned"
  /\ UNCHANGED <<manifest, ids, mode, docs, supa_check, new_docs, man_i, ingested>>
  /\ UNCHANGED <<split_vars, build_vars, retr_vars, app_vars, scope_vars, book_vars, emb_vars>>

\* line 187
ManInvalidMode ==
  /\ man_pc = "check"
  /\ man_i > Len(docs)
  /\ mode \notin {"check", "ingest"}
  /\ man_pc' = "raised"
  /\ UNCHANGED <<manifest, ids, mode, docs, supa_check, new_docs, man_i, ingested>>
  /\ UNCHANGED <<split_vars, build_vars, retr_vars, app_vars, scope_vars, book_vars, emb_vars>>

\* line 176: the entries whose slug is marked as not existing
ManSelect ==
  /\ man_pc = "check"
  /\ man_i > Len(docs)
  /\ mode = "ingest"
  /\ new_docs' = SelectSeq(docs, LAMBDA d : ~supa_check[d.slug][1])
  /\ man_i' = 1
  /\ man_pc' = "ingest"
  /\ UNCHANGED <<manifest, ids, mode, docs, supa_check, ingested>>
  /\ UNCHANGED <<split_vars, build_vars, retr_vars, app_vars, scope_vars, book_vars, emb_vars>>

\* what ingest_book_generic leaves in the documents table (lines 35-66 of
\* ingest_book_generic.py): the record of (slug, version), created if absent
WithDocument(table, sl, ver) ==
  IF DocumentsWith(table, sl, ver) # <<>> THEN table
  ELSE Append(table, DocumentRow(Len(table) + 1, sl, ver))

\* lines 183-184 and 89-137: the pipeline is run for the next new document
\* and succeeds
ManIngestOne ==
  /\ man_pc = "ingest"
  /\ man_i <= Len(new_docs)
  /\ ingested' = Append(ingested, new_docs[man_i])
  /\ documents' = WithDocument(documents, new_docs[man_i].slug,
                               VersionOf(new_docs[man_i]))
  /\ man_i' = man_i + 1
  /\ UNCHANGED <<manifest, ids, mode, docs, supa_check, new_docs, man_pc>>
  /\ UNCHANGED <<slug, slugs, query, embed_calls>>
  /\ UNCHANGED <<split_vars, build_vars, retr_vars, app_vars, book_vars, emb_vars>>

\* line 130: the subprocess ends with a non-zero code, check=True raises
\* CalledProcessError, which ends the loop and the function
ManIngestFails ==
  /\ man_pc = "ingest"
  /\ man_i <= Len(new_docs)
  /\ man_pc' = "raised"
  /\ UNCHANGED <<manifest, ids, mode, docs, supa_check, new_docs, man_i, ingested>>
  /\ UNCHANGED <<split_vars, build_vars, retr_vars, app_vars, scope_vars, book_vars, emb_vars>>

\* line 185
ManReturn ==
  /\ man_pc = "ingest"
  /\ man_i > Len(new_docs)
  /\ man_pc' = "returned"
  /\ UNCHANGED <<manifest, ids, mode, docs, supa_check, new_docs, man_i, ingested>>
  /\ UNCHANGED <<split_vars, build_vars, retr_vars, app_vars, scope_vars, book_vars, emb_vars>>

ManNext ==
  \/ ManLoad
  \/ ManFilesMissing
  \/ ManFilesExist
  \/ ManCheckOne
  \/ ManDryRun
  \/ ManInvalidMode
  \/ ManSelect
  \/ ManIngestOne
  \/ ManIngestFails
  \/ ManReturn

\* the manifests: up to MaxEntries entries, ids "x", "y", ... in order
EntryIds == <<"x", "y", "z">>

Manifests ==
  { [i \in 1..Len(f) |-> ManifestEntry(EntryIds[i], f[i][1], f[i][2])] :
      f \in SeqsUpTo(Slugs \X EntryVersions, MaxEntries) }

\* the documents tables: (slug, version) is unique
DocumentTables ==
  { <<>> }
  \cup { <<DocumentRow(1, sl, ver)>> : sl \in Slugs, ver \in Versions }
  \cup { <<DocumentRow(1, "a", v1), DocumentRow(2, sl, v2)>> :
           <<v1, sl, v2>> \in { t \in Versions \X Slugs \X Versions :
                                  t[2] # "a" \/ t[1] # t[3] } }

\* --ids: not given, given without a name, one id, one slug
IdsArguments == { <<>>, << <<>> >>, << <<"y">> >>, << <<"a">> >> }

ManInit ==
  /\ manifest \in Manifests
  /\ documents \in DocumentTables
  /\ ids \in IdsArguments
  /\ mode \in {"check", "ingest", "load"}
  /\ docs = <<>>
  /\ supa_check = [sl \in Slugs |-> <<>>]
  /\ new_docs = <<>>
  /\ man_i = 1
  /\ ingested = <<>>
  /\ man_pc = "call"

\* ingest_from_manifest is not running
ManIdle ==
  /\ manifest = <<>>
  /\ ids = <<>>
  /\ mode = "check"
  /\ docs = <<>>
  /\ supa_check = [sl \in Slugs |-> <<>>]
  /\ new_docs = <<>>
  /\ man_i = 1
  /\ ingested = <<>>
  /\ man_pc = "idle"

\* retrieve_top_k is called without a scope, on an empty documents table
ScopeIdle ==
  /\ documents = <<>>
  /\ slug = <<>>
  /\ slugs = <<>>
  /\ query = <<>>
  /\ embed_calls = <<>>

(***************************************************************************)
(* ingest_book_generic (src/ingest/pipeline/ingest_book_generic.py), run   *)
(* for the document (BookSlug, BookVersion).  A sections row has id,       *)
(* document_id, title, order_index; a chunks row has the columns of lines  *)
(* 154-164 and the id the store gives it.                                  *)
(***************************************************************************)
BookSlug == "a"
BookVersion == 1

\* line 169
batch_size == 200

\* the largest id of a table, 0 for the empty table
RECURSIVE MaxId(_)
MaxId(table) ==
  IF table = <<>> THEN 0 ELSE Max(Head(table).id, MaxId(Tail(table)))

\* the rows of the document
RowsOf(table, doc) == SelectSeq(table, LAMBDA row : row.document_id = <<doc>>)

\* delete().eq("document_id", document_id)
RowsNotOf(table, doc) == SelectSeq(table, LAMBDA row : row.document_id # <<doc>>)

SectionRow(id, doc, ti, ix) ==
  [id |-> id, document_id |-> <<doc>>, title |-> ti, order_index |-> ix]

\* lines 154-164, with the id of the stored row; None is <<>>
ChunkRow(id, doc, sec, ix, tx) ==
  [id |-> id, document_id |-> doc, section_id |-> sec, chunk_index |-> ix,
   page_from |-> <<>>, page_to |-> <<>>, text |-> tx, embedding |-> <<>>,
   tokens_count |-> <<>>, quality_flag |-> <<"ok">>]

\* lines 107-125: the rows insert_sections writes, with fresh ids in order
SectionRows(table, doc, secs) ==
  [n \in 1..Len(secs) |->
     SectionRow(MaxId(table) + n, doc, secs[n].title, secs[n].index)]

\* payload entries numbered from 1 in every section
PayloadOf_per_section(doc, sec, text_chunks, counter) ==
  [n \in 1..Len(text_chunks) |->
     [document_id |-> <<doc>>, section_id |-> <<sec>>,
      chunk_index |-> <<n>>, text |-> <<text_chunks[n]>>]]

\* lines 151-165: the payload entries of one section's chunks, numbered on
\* from the global counter
PayloadOf(doc, sec, text_chunks, counter) ==
  [n \in 1..Len(text_chunks) |->
     [document_id |-> <<doc>>, section_id |-> <<sec>>,
      chunk_index |-> <<counter + n>>, text |-> <<text_chunks[n]>>]]

\* lines 171-175: the rows one batch leaves in the chunks table
BatchRows(table, batch) ==
  [n \in 1..Len(batch) |->
     ChunkRow(MaxId(table) + n, batch[n].document_id, batch[n].section_id,
              batch[n].chunk_index, batch[n].text)]

\* lines 236-237: the file is not there
BookFileMissing ==
  /\ book_pc = "call"
  /\ book_pc' = "raised_early"
  /\ UNCHANGED <<document_id, db_sections, db_chunks, section_ids,
                 all_chunks_payload, global_chunk_index, book_i, batch_i>>
  /\ UNCHANGED <<split_vars, build_vars, retr_vars, app_vars, scope_vars, man_vars, emb_vars>>

\* lines 35-47: the document record exists
BookDocumentFound ==
  /\ book_pc = "call"
  /\ DocumentsWith(documents, BookSlug, BookVersion) # <<>>
  /\ document_id' = DocumentsWith(documents, BookSlug, BookVersion)[1].id
  /\ book_pc' = "cleanup"
  /\ UNCHANGED <<db_sections, db_chunks, section_ids,
                 all_chunks_payload, global_chunk_index, book_i, batch_i>>
  /\ UNCHANGED <<split_vars, build_vars, retr_vars, app_vars, scope_vars, man_vars, emb_vars>>

\* lines 49-66: the document record is created
BookDocumentCreated ==
  /\ book_pc = "call"
  /\ DocumentsWith(documents, BookSlug, BookVersion) = <<>>
  /\ documents' = Append(documents,
                         DocumentRow(MaxId(documents) + 1, BookSlug, BookVersion))
  /\ document_id' = MaxId(documents) + 1
  /\ book_pc' = "cleanup"
  /\ UNCHANGED <<db_sections, db_chunks, section_ids,
                 all_chunks_payload, global_chunk_index, book_i, batch_i>>
  /\ UNCHANGED <<slug, slugs, query, embed_calls>>
  /\ UNCHANGED <<split_vars, build_vars, retr_vars, app_vars, man_vars, emb_vars>>

\* lines 35-42 or 60-63: the store raises, or returns no data
BookDocumentFails ==
  /\ book_pc = "call"
  /\ book_pc' = "raised_early"
  /\ UNCHANGED <<document_id, db_sections, db_chunks, section_ids,
                 all_chunks_payload, global_chunk_index, book_i, batch_i>>
  /\ UNCHANGED <<split_vars, build_vars, retr_vars, app_vars, scope_vars, man_vars, emb_vars>>

\* lines 74-76: the chunks of the document are deleted
BookCleanupChunks ==
  /\ book_pc = "cleanup"
  /\ db_chunks' = RowsNotOf(db_chunks, document_id)
  /\ book_pc' = "cleanup_sections"
  /\ UNCHANGED <<document_id, db_sections, section_ids,
                 all_chunks_payload, global_chunk_index, book_i, batch_i>>
  /\ UNCHANGED <<split_vars, build_vars, retr_vars, app_vars, scope_vars, man_vars, emb_vars>>

\* lines 80-82: the sections of the document are deleted
BookCleanupSections ==
  /\ book_pc = "cleanup_sections"
  /\ db_sections' = RowsNotOf(db_sections, document_id)
  /\ book_pc' = "read"
  /\ UNCHANGED <<document_id, db_chunks, section_ids,
                 all_chunks_payload, global_chunk_index, book_i, batch_i>>
  /\ UNCHANGED <<split_vars, build_vars, retr_vars, app_vars, scope_vars, man_vars, emb_vars>>

\* lines 74-82: a delete raises
BookCleanupFails ==
  /\ book_pc \in {"cleanup", "cleanup_sections"}
  /\ book_pc' = "raised"
  /\ UNCHANGED <<document_id, db_sections, db_chunks, section_ids,
                 all_chunks_payload, global_chunk_index, book_i, batch_i>>
  /\ UNCHANGED <<split_vars, build_vars, retr_vars, app_vars, scope_vars, man_vars, emb_vars>>

\* what the reader returns (docx_reader.py 67-97): stripped, non-empty
\* texts; headings with their level, paragraphs with level None
DocxTexts == { <<"a">>, <<"b", "b", "b">> }
DocxBlocks == { Block(lv, tx) : lv \in BlockLevels, tx \in DocxTexts }
DocxDocuments == SeqsUpTo(DocxBlocks, MaxBookBlocks)

\* lines 262-263: the blocks are read and split_into_sections is called
BookRead ==
  /\ book_pc = "read"
  /\ \E bl \in DocxDocuments : blocks' = bl
  /\ sections' = <<>>
  /\ has_h1' = FALSE
  /\ current_blocks' = <<>>
  /\ current_title' = <<>>
  /\ current_heading_block' = <<>>
  /\ current_index' = 0
  /\ split_i' = 1
  /\ split_pc' = "loop"
  /\ book_pc' = "split"
  /\ UNCHANGED <<document_id, db_sections, db_chunks, section_ids,
                 all_chunks_payload, global_chunk_index, book_i, batch_i>>
  /\ UNCHANGED <<build_vars, retr_vars, app_vars, scope_vars, man_vars, emb_vars>>

\* line 262: the file cannot be read as DOCX
BookReadFails ==
  /\ book_pc = "read"
  /\ book_pc' = "raised"
  /\ UNCHANGED <<document_id, db_sections, db_chunks, section_ids,
                 all_chunks_payload, global_chunk_index, book_i, batch_i>>
  /\ UNCHANGED <<split_vars, build_vars, retr_vars, app_vars, scope_vars, man_vars, emb_vars>>

\* lines 98-126: the sections are inserted and their ids returned in order
\* (nothing is inserted for no sections); insert_chunks_for_book is called
BookInsertSections ==
  /\ book_pc = "split"
  /\ split_pc = "returned"
  /\ db_sections' = db_sections \o SectionRows(db_sections, document_id, sections)
  /\ section_ids' = [n \in 1..Len(sections) |-> MaxId(db_sections) + n]
  /\ book_pc' = "insert_call"
  /\ UNCHANGED <<document_id, db_chunks,
                 all_chunks_payload, global_chunk_index, book_i, batch_i>>
  /\ UNCHANGED <<split_vars, build_vars, retr_vars, app_vars, scope_vars, man_vars, emb_vars>>

\* lines 119-123: the insert raises, or returns no data
BookInsertSectionsFails ==
  /\ book_pc = "split"
  /\ split_pc = "returned"
  /\ sections # <<>>
  /\ book_pc' = "raised"
  /\ UNCHANGED <<document_id, db_sections, db_chunks, section_ids,
                 all_chunks_payload, global_chunk_index, book_i, batch_i>>
  /\ UNCHANGED <<split_vars, build_vars, retr_vars, app_vars, scope_vars, man_vars, emb_vars>>

\* lines 138-139
InsertChunksMismatch ==
  /\ book_pc = "insert_call"
  /\ Len(sections) # Len(section_ids)
  /\ book_pc' = "raised"
  /\ UNCHANGED <<document_id, db_sections, db_chunks, section_ids,
                 all_chunks_payload, global_chunk_index, book_i, batch_i>>
  /\ UNCHANGED <<split_vars, build_vars, retr_vars, app_vars, scope_vars, man_vars, emb_vars>>

\* lines 138-144
InsertChunksEnter ==
  /\ book_pc = "insert_call"
  /\ Len(sections) = Len(section_ids)
  /\ all_chunks_payload' = <<>>
  /\ global_chunk_index' = 0
  /\ book_i' = 1
  /\ book_pc' = "sections"
  /\ UNCHANGED <<document_id, db_sections, db_chunks, section_ids, batch_i>>
  /\ UNCHANGED <<split_vars, build_vars, retr_vars, app_vars, scope_vars, man_vars, emb_vars>>

\* lines 146-147: build_text_chunks_for_section is called for the next
\* section, with its default sizes
InsertChunksBuild ==
  /\ book_pc = "sections"
  /\ book_i <= Len(sections)
  /\ section' = sections[book_i]
  /\ max_chars' = BookMaxChars
  /\ min_chars' = BookMinChars
  /\ pieces' = <<>>
  /\ chunks' = <<>>
  /\ current' = <<>>
  /\ current_len' = 0
  /\ piece_i' = 1
  /\ build_pc' = "start"
  /\ book_pc' = "building"
  /\ UNCHANGED <<document_id, db_sections, db_chunks, section_ids,
                 all_chunks_payload, global_chunk_index, book_i, batch_i>>
  /\ UNCHANGED <<split_vars, retr_vars, app_vars, scope_vars, man_vars, emb_vars>>

\* lines 148-165: the chunks of the section, if any, go to the payload
InsertChunksCollect ==
  /\ book_pc = "building"
  /\ build_pc = "returned"
  /\ all_chunks_payload' =
       all_chunks_payload
         \o PayloadOf(document_id, section_ids[book_i], chunks, global_chunk_index)
  /\ global_chunk_index' = global_chunk_index + Len(chunks)
  /\ book_i' = book_i + 1
  /\ book_pc' = "sections"
  /\ UNCHANGED <<document_id, db_sections, db_chunks, section_ids, batch_i>>
  /\ UNCHANGED <<split_vars, build_vars, retr_vars, app_vars, scope_vars, man_vars, emb_vars>>

\* line 167: the payload is complete
InsertChunksPrepared ==
  /\ book_pc = "sections"
  /\ book_i > Len(sections)
  /\ batch_i' = 0
  /\ book_pc' = "batches"
  /\ UNCHANGED <<document_id, db_sections, db_chunks, section_ids,
                 all_chunks_payload, global_chunk_index, book_i>>
  /\ UNCHANGED <<split_vars, build_vars, retr_vars, app_vars, scope_vars, man_vars, emb_vars>>

\* lines 170-176: the next batch is inserted
InsertChunksBatch ==
  /\ book_pc = "batches"
  /\ batch_i < Len(all_chunks_payload)
  /\ db_chunks' = db_chunks \o BatchRows(db_chunks,
         SubSeq(all_chunks_payload, batch_i + 1,
                Min(batch_i + batch_size, Len(all_chunks_payload))))
  /\ batch_i' = batch_i + batch_size
  /\ UNCHANGED <<document_id, db_sections, section_ids,
                 all_chunks_payload, global_chunk_index, book_i, book_pc>>
  /\ UNCHANGED <<split_vars, build_vars, retr_vars, app_vars, scope_vars, man_vars, emb_vars>>

\* line 175: the insert of a batch raises
InsertChunksBatchFails ==
  /\ book_pc = "batches"
  /\ batch_i < Len(all_chunks_payload)
  /\ book_pc' = "raised"
  /\ UNCHANGED <<document_id, db_sections, db_chunks, section_ids,
                 all_chunks_payload, global_chunk_index, book_i, batch_i>>
  /\ UNCHANGED <<split_vars, build_vars, retr_vars, app_vars, scope_vars, man_vars, emb_vars>>

\* lines 170 and 273: no batch is left, the ingestion is finished
InsertChunksDone ==
  /\ book_pc = "batches"
  /\ batch_i >= Len(all_chunks_payload)
  /\ book_pc' = "done"
  /\ UNCHANGED <<document_id, db_sections, db_chunks, section_ids,
                 all_chunks_payload, global_chunk_index, book_i, batch_i>>
  /\ UNCHANGED <<split_vars, build_vars, retr_vars, app_vars, scope_vars, man_vars, emb_vars>>

\* insert_chunks_for_book (lines 129-176) with the chunker it calls
InsertChunksNext ==
  \/ InsertChunksMismatch
  \/ InsertChunksEnter
  \/ InsertChunksBuild
  \/ BuildNext
  \/ InsertChunksCollect
  \/ InsertChunksPrepared
  \/ InsertChunksBatch
  \/ InsertChunksBatchFails
  \/ InsertChunksDone

\* ingest_book_generic (lines 232-273) with the functions it calls.  The
\* reader gives no block without text, so no section is without pieces; the
\* ids insert_sections returns are as many as the sections.
BookNext ==
  \/ BookFileMissing
  \/ BookDocumentFound
  \/ BookDocumentCreated
  \/ BookDocumentFails
  \/ BookCleanupChunks
  \/ BookCleanupSections
  \/ BookCleanupFails
  \/ BookRead
  \/ BookReadFails
  \/ SplitNext
  \/ BookInsertSections
  \/ BookInsertSectionsFails
  \/ InsertChunksEnter
  \/ InsertChunksBuild
  \/ BuildStart
  \/ BuildPiece
  \/ BuildTailMerge
  \/ BuildTailFlush
  \/ InsertChunksCollect
  \/ InsertChunksPrepared
  \/ InsertChunksBatch
  \/ InsertChunksBatchFails
  \/ InsertChunksDone

\* what an earlier ingestion of the document has left: one section with two
\* chunks; and the content of another document
StoredDocument == DocumentRow(1, BookSlug, BookVersion)
OtherDocument == DocumentRow(2, "b", 1)
StoredSections == << SectionRow(1, 1, <<"T">>, 1) >>
StoredChunks ==
  << ChunkRow(1, <<1>>, <<1>>, <<1>>, <<<<"T", "\n", "\n", "a">>>>),
     ChunkRow(2, <<1>>, <<1>>, <<2>>, <<<<"T", "\n", "\n", "b">>>>) >>
OtherSections == << SectionRow(2, 2, <<"U">>, 1) >>
OtherChunks == << ChunkRow(3, <<2>>, <<2>>, <<1>>, <<<<"U", "\n", "\n", "c">>>>) >>

\* the stores the ingestion is started on: empty; holding another document;
\* holding the document (a re-ingestion), alone or with the other one
BookStores ==
  { [documents |-> <<>>, sections |-> <<>>, chunks |-> <<>>],
    [documents |-> <<OtherDocument>>, sections |-> OtherSections,
     chunks |-> OtherChunks],
    [documents |-> <<StoredDocument>>, sections |-> StoredSections,
     chunks |-> StoredChunks],
    [documents |-> <<StoredDocument, OtherDocument>>,
     sections |-> StoredSections \o OtherSections,
     chunks |-> StoredChunks \o OtherChunks] }

\* the locals of ingest_book_generic and insert_chunks_for_book before use
BookLocals ==
  /\ document_id = 0
  /\ section_ids = <<>>
  /\ all_chunks_payload = <<>>
  /\ global_chunk_index = 0
  /\ book_i = 1
  /\ batch_i = 0

BookInit ==
  /\ \E st \in BookStores :
       /\ documents = st.documents
       /\ db_sections = st.sections
       /\ db_chunks = st.chunks
  /\ BookLocals
  /\ book_pc = "call"

\* the sections insert_chunks_for_book may be handed: with a title or
\* without, without text, with one piece, with pieces for two chunks, with
\* a short last piece
InsertSectionBlocks ==
  { <<>>,
    << Block(0, <<" ">>) >>,
    << Block(1, <<"T">>), Block(0, <<"a">>) >>,
    << Block(0, <<"b", "b", "b">>), Block(0, <<"b", "b", "b">>) >>,
    << Block(0, <<"b", "b", "b">>), Block(0, <<"a">>) >> }

InsertSections ==
  { [n \in 1..Len(f) |-> Section(n, f[n][1], <<>>, f[n][2])] :
      f \in SeqsUpTo({ <<>>, <<"T">> } \X InsertSectionBlocks, MaxInsertSections) }

\* insert_chunks_for_book is called with sections and with as many ids, or
\* with one id less
InsertChunksInit ==
  /\ documents = <<StoredDocument>>
  /\ db_sections = <<>>
  /\ db_chunks = <<>>
  /\ document_id = 1
  /\ sections \in InsertSections
  /\ \E m \in {Len(sections), Len(sections) - 1} :
       /\ m >= 0
       /\ section_ids = [n \in 1..m |-> 10 + n]
  /\ all_chunks_payload = <<>>
  /\ global_chunk_index = 0
  /\ book_i = 1
  /\ batch_i = 0
  /\ book_pc = "insert_call"

\* ingest_book_generic is not running
BookIdle ==
  /\ db_sections = <<>>
  /\ db_chunks = <<>>
  /\ BookLocals
  /\ book_pc = "idle"

\* the embedding pipeline is not running
EmbIdle ==
  /\ rows = <<>>
  /\ embeddings = <<>>
  /\ iteration = 0
  /\ total_processed = 0
  /\ emb_pc = "idle"

\* no ingestion is running
IngIdle == ManIdle /\ BookIdle /\ EmbIdle

(***************************************************************************)
(* retrieve_top_k with a document scope (retrieval.py 44-140, 233-267).    *)
(***************************************************************************)
\* the documents table: two versions of "a", and "b"
ScopeDocuments ==
  << DocumentRow(1, "a", 1), DocumentRow(2, "a", 2), DocumentRow(3, "b", 1) >>

\* the chunks of the three documents
ScopeEmbeddings ==
  { RawList(<<Num(1), Num(0)>>), RawStr(<<"[", "1">>), RawList(<<Num(1)>>) }

ScopeStores ==
  { [i \in 1..Len(f) |->
       [id |-> i, document_id |-> f[i][1], text |-> <<"t">>,
        embedding |-> f[i][2], quality_flag |-> "ok"]] :
      f \in SeqsUpTo({1, 2, 3} \X ScopeEmbeddings, MaxScopeRows) }

\* slug: None, "", a stored slug, a slug of no document
SlugArguments == { <<>>, <<"">>, <<"a">>, <<"c">> }

\* slugs: None, [], lists of stored slugs, a list of no document's slug
SlugsArguments ==
  { <<>>, << <<>> >>, << <<"b">> >>, << <<"a", "b">> >>, << <<"c">> >> }

ScopeInit ==
  /\ documents = ScopeDocuments
  /\ store \in ScopeStores
  /\ slug \in SlugArguments
  /\ slugs \in SlugsArguments
  /\ query = <<"q", " ", "r">>
  /\ embed_calls = <<>>
  /\ k = 5
  /\ loaded = <<>>
  /\ query_embedding = <<>>
  /\ score_i = 1
  /\ scored = <<>>
  /\ scored_chunks = <<>>
  /\ top = <<>>
  /\ retr_pc = "call"

(***************************************************************************)
(* build_embeddings_for_all_chunks (src/ingest/pipeline/                    *)
(* build_embeddings.py) on the chunks table db_chunks.  None is <<>>, any   *)
(* other column value v is <<v>>.                                          *)
(***************************************************************************)
\* a stored chunk with every column
StoredChunk(id, doc, sec, ix, pf, pt, tx, emb, tc, qf) ==
  [id |-> id, document_id |-> doc, section_id |-> sec, chunk_index |-> ix,
   page_from |-> pf, page_to |-> pt, text |-> tx, embedding |-> emb,
   tokens_count |-> tc, quality_flag |-> qf]

\* lines 33-36: the columns the read selects
Fetched(row) ==
  [id |-> row.id, document_id |-> row.document_id,
   section_id |-> row.section_id, chunk_index |-> row.chunk_index,
   page_from |-> row.page_from, page_to |-> row.page_to, text |-> row.text,
   quality_flag |-> row.quality_flag, tokens_count |-> row.tokens_count]

\* line 37: embedding IS NULL
Pending(table) == { n \in 1..Len(table) : table[n].embedding = <<>> }

\* line 48: the row has a document_id and a text that is not empty
IsValidRow(row) == row.document_id # <<>> /\ row.text # <<>> /\ row.text # << <<>> >>

\* the rows of the table at the places in the set `at`, in table order
RECURSIVE RowsAt(_, _, _)
RowsAt(table, at, n) ==
  IF n > Len(table) THEN <<>>
  ELSE IF n \in at
       THEN <<table[n]>> \o RowsAt(table, at, n + 1)
       ELSE RowsAt(table, at, n + 1)

\* lines 42-49: what fetch_chunks_without_embedding returns when the store
\* answers with the rows at `at`
fetched_rows(table, at) ==
  LET raw_rows == RowsAt(table, at, 1)
      kept == SelectSeq(raw_rows, IsValidRow)
  IN [n \in 1..Len(kept) |-> Fetched(kept[n])]

\* the answers the store may give under LIMIT limit: any of the pending
\* rows, as many as the limit allows (the read has no ORDER BY)
Answers(table, limit) ==
  { at \in SUBSET Pending(table) :
      Cardinality(at) = Min(limit, Cardinality(Pending(table))) }

\* an entry that takes the default of the marker for the stored marker
upsert_entry_default_flag(row, emb) ==
  [id |-> row.id, document_id |-> row.document_id,
   section_id |-> row.section_id, chunk_index |-> row.chunk_index,
   page_from |-> row.page_from, page_to |-> row.page_to, text |-> row.text,
   quality_flag |-> <<"ok">>, tokens_count |-> row.tokens_count,
   embedding |-> <<emb>>]

\* lines 84-102: the payload entry of a row
upsert_entry(row, emb) ==
  [id |-> row.id, document_id |-> row.document_id,
   section_id |-> row.section_id, chunk_index |-> row.chunk_index,
   page_from |-> row.page_from, page_to |-> row.page_to, text |-> row.text,
   quality_flag |-> row.quality_flag, tokens_count |-> row.tokens_count,
   embedding |-> <<emb>>]

\* lines 77-102: the payload, without the rows that have no id (id 0)
upsert_payload(rs, embs) ==
  LET at == { n \in 1..Len(rs) : rs[n].id # 0 }
      zipped == [n \in 1..Len(rs) |-> upsert_entry(rs[n], embs[n])]
  IN RowsAt(zipped, at, 1)

\* line 108: upsert on the primary key id: a stored row takes the columns
\* of its entry, an entry of no stored row is inserted
Upserted(table, payload) ==
  LET EntryOf(row) ==
        CHOOSE m \in 1..Len(payload) : payload[m].id = row.id
      HasEntry(row) == \E m \in 1..Len(payload) : payload[m].id = row.id
      Stored(entry) == \E n \in 1..Len(table) : table[n].id = entry.id
  IN [n \in 1..Len(table) |->
        IF HasEntry(table[n]) THEN payload[EntryOf(table[n])] ELSE table[n]]
     \o SelectSeq(payload, LAMBDA entry : ~Stored(entry))

\* the vector the provider returns
Vector == <<1, 0>>

\* lines 162-164 and 24-56: the next batch is fetched
EmbFetch ==
  /\ emb_pc = "fetch"
  /\ \E at \in Answers(db_chunks, BATCH_SIZE) : rows' = fetched_rows(db_chunks, at)
  /\ iteration' = iteration + 1
  /\ emb_pc' = "fetched"
  /\ UNCHANGED <<embeddings, total_processed>>
  /\ UNCHANGED <<db_sections, db_chunks, document_id, section_ids,
                 all_chunks_payload, global_chunk_index, book_i, batch_i, book_pc>>
  /\ UNCHANGED <<split_vars, build_vars, retr_vars, app_vars, scope_vars, man_vars>>

\* line 39: the read raises
EmbFetchFails ==
  /\ emb_pc = "fetch"
  /\ emb_pc' = "raised"
  /\ UNCHANGED <<rows, embeddings, iteration, total_processed>>
  /\ UNCHANGED <<split_vars, build_vars, retr_vars, app_vars, scope_vars, man_vars,
                 book_vars>>

\* lines 166-168: no valid row was fetched, the loop ends
EmbFinished ==
  /\ emb_pc = "fetched"
  /\ rows = <<>>
  /\ emb_pc' = "returned"
  /\ UNCHANGED <<rows, embeddings, iteration, total_processed>>
  /\ UNCHANGED <<split_vars, build_vars, retr_vars, app_vars, scope_vars, man_vars,
                 book_vars>>

\* lines 170 and 123-141: the provider returns one vector for each text, and
\* update_embeddings is called
EmbRequest ==
  /\ emb_pc = "fetched"
  /\ rows # <<>>
  /\ embeddings' = [n \in 1..Len(rows) |-> Vector]
  /\ emb_pc' = "update"
  /\ UNCHANGED <<rows, iteration, total_processed>>
  /\ UNCHANGED <<split_vars, build_vars, retr_vars, app_vars, scope_vars, man_vars,
                 book_vars>>

\* line 135: the provider raises
EmbRequestFails ==
  /\ emb_pc = "fetched"
  /\ rows # <<>>
  /\ emb_pc' = "raised"
  /\ UNCHANGED <<rows, embeddings, iteration, total_processed>>
  /\ UNCHANGED <<split_vars, build_vars, retr_vars, app_vars, scope_vars, man_vars,
                 book_vars>>

\* lines 67-68: update_embeddings returns at once for no rows
UpdateNoRows ==
  /\ emb_pc = "update"
  /\ rows = <<>>
  /\ emb_pc' = "updated"
  /\ UNCHANGED <<rows, embeddings, iteration, total_processed>>
  /\ UNCHANGED <<split_vars, build_vars, retr_vars, app_vars, scope_vars, man_vars,
                 book_vars>>

\* lines 70-73
UpdateMismatch ==
  /\ emb_pc = "update"
  /\ rows # <<>>
  /\ Len(rows) # Len(embeddings)
  /\ emb_pc' = "raised"
  /\ UNCHANGED <<rows, embeddings, iteration, total_processed>>
  /\ UNCHANGED <<split_vars, build_vars, retr_vars, app_vars, scope_vars, man_vars,
                 book_vars>>

\* lines 75-109: the payload is built and, unless it is empty, upserted
UpdateUpsert ==
  /\ emb_pc = "update"
  /\ rows # <<>>
  /\ Len(rows) = Len(embeddings)
  /\ db_chunks' = IF upsert_payload(rows, embeddings) = <<>> THEN db_chunks
                  ELSE Upserted(db_chunks, upsert_payload(rows, embeddings))
  /\ emb_pc' = "updated"
  /\ UNCHANGED <<rows, embeddings, iteration, total_processed>>
  /\ UNCHANGED <<db_sections, document_id, section_ids,
                 all_chunks_payload, global_chunk_index, book_i, batch_i, book_pc>>
  /\ UNCHANGED <<split_vars, build_vars, retr_vars, app_vars, scope_vars, man_vars>>

\* line 108: the upsert raises
UpdateUpsertFails ==
  /\ emb_pc = "update"
  /\ rows # <<>>
  /\ Len(rows) = Len(embeddings)
  /\ emb_pc' = "raised"
  /\ UNCHANGED <<rows, embeddings, iteration, total_processed>>
  /\ UNCHANGED <<split_vars, build_vars, retr_vars, app_vars, scope_vars, man_vars,
                 book_vars>>

\* lines 171-178: the batch is counted, the loop goes on
EmbBatchDone ==
  /\ emb_pc = "updated"
  /\ total_processed' = total_processed + Len(rows)
  /\ emb_pc' = "fetch"
  /\ UNCHANGED <<rows, embeddings, iteration>>
  /\ UNCHANGED <<split_vars, build_vars, retr_vars, app_vars, scope_vars, man_vars,
                 book_vars>>

\* update_embeddings (lines 59-109)
UpdateNext == UpdateNoRows \/ UpdateMismatch \/ UpdateUpsert \/ UpdateUpsertFails

\* build_embeddings_for_all_chunks (lines 148-178) with the functions it
\* calls: update_embeddings is called with rows and as many vectors
EmbNext ==
  \/ EmbFetch
  \/ EmbFetchFails
  \/ EmbFinished
  \/ EmbRequest
  \/ EmbRequestFails
  \/ UpdateUpsert
  \/ UpdateUpsertFails
  \/ EmbBatchDone

\* the stored chunks, without their id: waiting for an embedding, with every
\* other column set or not; broken (no document, no text, empty text);
\* embedded
ChunkKinds ==
  { [doc |-> <<1>>, tx |-> << <<"t">> >>, emb |-> <<>>, qf |-> <<"ok">>, pf |-> <<>>],
    [doc |-> <<1>>, tx |-> << <<"u">> >>, emb |-> <<>>, qf |-> <<"draft">>, pf |-> <<3>>],
    [doc |-> <<>>, tx |-> << <<"t">> >>, emb |-> <<>>, qf |-> <<"ok">>, pf |-> <<>>],
    [doc |-> <<1>>, tx |-> <<>>, emb |-> <<>>, qf |-> <<>>, pf |-> <<>>],
    [doc |-> <<1>>, tx |-> << <<>> >>, emb |-> <<>>, qf |-> <<"ok">>, pf |-> <<>>],
    [doc |-> <<1>>, tx |-> << <<"t">> >>, emb |-> <<Vector>>, qf |-> <<"ok">>, pf |-> <<>>] }

ChunkTables ==
  { [n \in 1..Len(f) |->
       StoredChunk(n, f[n].doc, <<1>>, <<n>>, f[n].pf, f[n].pf, f[n].tx,
                   f[n].emb, f[n].pf, f[n].qf)] :
      f \in SeqsUpTo(ChunkKinds, MaxChunkRows) }

EmbInit ==
  /\ db_chunks \in ChunkTables
  /\ rows = <<>>
  /\ embeddings = <<>>
  /\ iteration = 0
  /\ total_processed = 0
  /\ emb_pc = "fetch"

\* update_embeddings is called with fetched rows of the table and with as
\* many vectors, one less or one more
UpdateInit ==
  /\ db_chunks \in ChunkTables
  /\ \E at \in SUBSET Pending(db_chunks) : rows = fetched_rows(db_chunks, at)
  /\ \E m \in {Len(rows) - 1, Len(rows), Len(rows) + 1} :
       /\ m >= 0
       /\ embeddings = [n \in 1..m |-> Vector]
  /\ iteration = 0
  /\ total_processed = 0
  /\ emb_pc = "update"

\* the tables and locals of ingest_book_generic, for the embedding pipeline
BookOff ==
  /\ db_sections = <<>>
  /\ BookLocals
  /\ book_pc = "idle"

(***************************************************************************)
(* Specifications: one per function, the other functions not being called. *)
(* The functions share no state (spec section 5).                          *)
(***************************************************************************)
SplitIdle ==
  /\ blocks = <<>>
  /\ sections = <<>>
  /\ has_h1 = FALSE
  /\ current_blocks = <<>>
  /\ current_title = <<>>
  /\ current_heading_block = <<>>
  /\ current_index = 0
  /\ split_i = 1
  /\ split_pc = "idle"

BuildIdle ==
  /\ section = Section(1, <<>>, <<>>, <<>>)
  /\ max_chars = 2
  /\ min_chars = 1
  /\ pieces = <<>>
  /\ chunks = <<>>
  /\ current = <<>>
  /\ current_len = 0
  /\ piece_i = 1
  /\ build_pc = "idle"

RetrIdle ==
  /\ store = <<>>
  /\ k = 0
  /\ loaded = <<>>
  /\ query_embedding = <<>>
  /\ score_i = 1
  /\ scored = <<>>
  /\ scored_chunks = <<>>
  /\ top = <<>>
  /\ retr_pc = "idle"

InitSplit == SplitInit /\ BuildIdle /\ RetrIdle /\ AppIdle /\ ScopeIdle /\ IngIdle
InitBuild == SplitIdle /\ BuildInit /\ RetrIdle /\ AppIdle /\ ScopeIdle /\ IngIdle
InitRetr == SplitIdle /\ BuildIdle /\ RetrInit /\ AppIdle /\ ScopeIdle /\ IngIdle
NormalizeNext == ScoreNext \/ ScoreDecodeRaise

InitAnswer == SplitIdle /\ BuildIdle /\ AnswerInit /\ ScopeIdle /\ IngIdle
InitBot == SplitIdle /\ BuildIdle /\ BotInit /\ ScopeIdle /\ IngIdle

InitScore == SplitIdle /\ BuildIdle /\ ScoreInit /\ AppIdle /\ ScopeIdle /\ IngIdle
InitNormalize == SplitIdle /\ BuildIdle /\ NormalizeInit /\ AppIdle /\ ScopeIdle /\ IngIdle

SpecSplit == InitSplit /\ [][SplitNext]_vars
SpecBuild == InitBuild /\ [][BuildNext]_vars
SpecRetr == InitRetr /\ [][RetrNext]_vars
SpecScore == InitScore /\ [][ScoreNext]_vars
SpecNormalize == InitNormalize /\ [][NormalizeNext]_vars

InitManifest ==
  SplitIdle /\ BuildIdle /\ RetrIdle /\ AppIdle /\ ManInit /\ BookIdle /\ EmbIdle
  /\ slug = <<>> /\ slugs = <<>> /\ query = <<>> /\ embed_calls = <<>>
SpecManifest == InitManifest /\ [][ManNext]_vars

InitEmbeddings ==
  SplitIdle /\ BuildIdle /\ RetrIdle /\ AppIdle /\ ScopeIdle /\ ManIdle
  /\ BookOff /\ EmbInit
SpecEmbeddings == InitEmbeddings /\ [][EmbNext]_vars

InitUpdate ==
  SplitIdle /\ BuildIdle /\ RetrIdle /\ AppIdle /\ ScopeIdle /\ ManIdle
  /\ BookOff /\ UpdateInit
SpecUpdate == InitUpdate /\ [][UpdateNext]_vars

InitScope == SplitIdle /\ BuildIdle /\ ScopeInit /\ AppIdle /\ IngIdle
SpecScope == InitScope /\ [][RetrNext]_vars

InitBook ==
  SplitIdle /\ BuildIdle /\ RetrIdle /\ AppIdle /\ ManIdle /\ BookInit /\ EmbIdle
  /\ slug = <<>> /\ slugs = <<>> /\ query = <<>> /\ embed_calls = <<>>
SpecBook == InitBook /\ [][BookNext]_vars

InitInsertChunks ==
  /\ blocks = <<>> /\ has_h1 = FALSE /\ current_blocks = <<>>
  /\ current_title = <<>> /\ current_heading_block = <<>>
  /\ current_index = 0 /\ split_i = 1 /\ split_pc = "idle"
  /\ BuildIdle /\ RetrIdle /\ AppIdle /\ ManIdle /\ InsertChunksInit /\ EmbIdle
  /\ slug = <<>> /\ slugs = <<>> /\ query = <<>> /\ embed_calls = <<>>
SpecInsertChunks == InitInsertChunks /\ [][InsertChunksNext]_vars

\* the handler of /rag/answer with the retrieve_top_k it calls; the handler
\* is synchronous code that runs on once it is called, and the calls of the
\* store and of the providers come back or raise
SpecAnswer ==
  InitAnswer /\ [][AnswerNext \/ RetrNext]_vars /\ WF_vars(AnswerNext \/ RetrNext)

\* the bot with the service it posts to
SpecBot == InitBot /\ [][BotNext \/ AnswerNext \/ RetrNext]_vars


(***************************************************************************)
(* Properties of split_into_sections, under SpecSplit.                     *)
(***************************************************************************)
RECURSIVE ConcatBlocks(_)
ConcatBlocks(secs) ==
  IF secs = <<>> THEN <<>> ELSE Head(secs).blocks \o ConcatBlocks(Tail(secs))

HasH1(bl) == \E n \in 1..Len(bl) : bl[n].level = 1

\* C1: for a non-empty block list with at least one level-1 block, the block
\* lists of the returned sections, concatenated in section order, are the
\* input block list (nothing dropped, duplicated or reordered), also when
\* other blocks precede the first level-1 block.
C1_SectionsPartitionInput ==
  (split_pc = "returned" /\ blocks # <<>> /\ HasH1(blocks))
    => ConcatBlocks(sections) = blocks

\* a returned split of a list that starts with a paragraph and has an H1
C1_Witness ==
  /\ split_pc = "returned"
  /\ Len(blocks) = MaxBlocks
  /\ blocks[1].level # 1
  /\ HasH1(blocks)
  /\ Len(sections) >= 2

\* C2 (as claimed): a block list without level-1 block, the empty list
\* included, gives exactly one fallback section: index 1, no heading block,
\* all the input blocks, titled with the first block's text, or with the
\* placeholder when there is no such text.
C2_FallbackAlsoForEmptyInput ==
  (split_pc = "returned" /\ ~HasH1(blocks))
    => sections =
         << Section(1,
                    IF blocks = <<>> THEN FULL_DOCUMENT
                    ELSE OrElse(strip(blocks[1].text), FULL_DOCUMENT),
                    <<>>, blocks) >>

\* C3 (as claimed): the returned sections carry the indices 1, 2, ..., n in
\* list order.
C3_IndicesDenseFromOne ==
  split_pc = "returned"
    => \A n \in 1..Len(sections) : sections[n].index = n


(***************************************************************************)
(* Properties of build_text_chunks_for_section, under SpecBuild.           *)
(* At the return, `current` is non-empty exactly when the tail was glued   *)
(* to the previous chunk: that branch (line 220) does not clear the        *)
(* buffer, flush_current does.                                             *)
(***************************************************************************)
StartsWith(t, pre) == Len(t) >= Len(pre) /\ SubSeq(t, 1, Len(pre)) = pre

\* what a chunk with a body starts with
Prefix == IF header # <<>> THEN header \o SEP ELSE <<>>

\* the chunk without its title prefix (no text at all when it has none)
Body(ch) ==
  IF StartsWith(ch, Prefix) THEN SubSeq(ch, Len(Prefix) + 1, Len(ch)) ELSE <<>>

Bodies == [c \in 1..Len(chunks) |-> Body(chunks[c])]

TailMerged == build_pc = "returned" /\ pieces # <<>> /\ current # <<>>

\* the last of the pieces p, p+1, ... that joined give `txt`; 0 if none do
RunEnd(p, txt) ==
  IF \E q \in p..Len(pieces) : join(SubSeq(pieces, p, q)) = txt
  THEN CHOOSE q \in p..Len(pieces) : join(SubSeq(pieces, p, q)) = txt
  ELSE 0

\* the run of pieces [from, to] each chunk from chunk c on is made of, the
\* first of them starting at piece p; cut short by from = 0 where a chunk is
\* not the join of the next pieces
RECURSIVE RunsFrom(_, _)
RunsFrom(c, p) ==
  IF c > Len(chunks) THEN <<>>
  ELSE LET e == RunEnd(p, Body(chunks[c]))
       IN IF e = 0 THEN << [from |-> 0, to |-> 0] >>
          ELSE << [from |-> p, to |-> e] >> \o RunsFrom(c + 1, e + 1)

Runs == RunsFrom(1, 1)

\* the chunks are, in order, the joins of consecutive runs covering all pieces
RunsCoverPieces ==
  /\ Len(Runs) = Len(chunks)
  /\ Len(chunks) >= 1
  /\ \A c \in 1..Len(Runs) : Runs[c].from >= 1
  /\ Runs[Len(Runs)].to = Len(pieces)

\* chunk c holds a block text longer than max_chars
Oversized(c) ==
  \E q \in Runs[c].from..Runs[c].to : Len(pieces[q]) > max_chars

\* C4: when the stripped title is non-empty, every chunk is the title or
\* begins with the title followed by a blank line: flushed chunks, a chunk
\* that received the merged tail, and the title-only chunk.
C4_ChunksBeginWithTitle ==
  header # <<>>
    => \A c \in 1..Len(chunks) :
         IF pieces = <<>> THEN chunks[c] = header
         ELSE StartsWith(chunks[c], header \o SEP) /\ Len(chunks[c]) > Len(header) + 2

\* chunks of a titled section returned after the tail was merged
C4_Witness ==
  /\ TailMerged
  /\ header # <<>>
  /\ section.title # header
  /\ Len(chunks) >= 2

\* C5 (as claimed): every returned chunk without a block text longer than
\* max_chars is at most max_chars + len(title) + 2 long, the last chunk
\* after the short-tail merge included.
C5_ChunkLengthBound ==
  (build_pc = "returned" /\ pieces # <<>>)
    => /\ RunsCoverPieces
       /\ \A c \in 1..Len(chunks) :
            ~Oversized(c) => Len(chunks[c]) <= max_chars + Len(section.title) + 2

\* C5 (amended): the bound holds for every chunk without oversized block
\* text except a last chunk that received the merged tail; that one is at
\* most min_chars + 1 longer (the blank line and a tail below min_chars).
C5_ChunkLengthBoundButMergedTail ==
  (build_pc = "returned" /\ pieces # <<>>)
    => /\ RunsCoverPieces
       /\ \A c \in 1..Len(chunks) :
            ~Oversized(c) =>
              Len(chunks[c]) <= max_chars + Len(section.title) + 2
                                + (IF c = Len(chunks) /\ TailMerged
                                   THEN min_chars + 1 ELSE 0)

\* a merged last chunk without oversized text that is longer than the bound
\* of the other chunks
C5_Witness ==
  /\ TailMerged
  /\ RunsCoverPieces
  /\ Len(chunks) >= 2
  /\ ~Oversized(Len(chunks))
  /\ Len(chunks[Len(chunks)]) > max_chars + Len(section.title) + 2

\* C6: a remainder shorter than min_chars is not emitted as a chunk of its
\* own once a chunk was flushed, it is appended behind a blank line to the
\* previous chunk; so with two or more chunks the body of the last one is
\* at least min_chars long.
C6_NoShortStandaloneTail ==
  (build_pc = "returned" /\ pieces # <<>>)
    => /\ Len(chunks) >= 2 => Len(Body(chunks[Len(chunks)])) >= min_chars
       /\ TailMerged =>
            /\ Len(join(current)) < min_chars
            /\ Len(chunks[Len(chunks)]) > Len(SEP \o join(current))
            /\ SubSeq(chunks[Len(chunks)],
                      Len(chunks[Len(chunks)]) - Len(SEP \o join(current)) + 1,
                      Len(chunks[Len(chunks)])) = SEP \o join(current)
       /\ (~TailMerged /\ Len(Body(chunks[Len(chunks)])) < min_chars)
            => Len(chunks) = 1

\* a short tail merged into the second or a later chunk
C6_Witness ==
  /\ TailMerged
  /\ Len(chunks) >= 2
  /\ Len(join(current)) < min_chars

\* C7: nothing is dropped, duplicated, reordered or split: without their
\* title prefix and joined by blank lines, the chunks are the non-empty
\* block texts joined by blank lines, and each chunk is made of whole
\* consecutive block texts.
C7_ContentPreserved ==
  (build_pc = "returned" /\ pieces # <<>>)
    => /\ pieces = PiecesOf(section.blocks)
       /\ \A c \in 1..Len(chunks) : StartsWith(chunks[c], Prefix)
       /\ RunsCoverPieces
       /\ join(Bodies) = join(pieces)

\* several chunks, the last with a merged tail, from as many pieces as fit
C7_Witness ==
  /\ TailMerged
  /\ Len(pieces) = MaxSectionBlocks
  /\ Len(chunks) >= 2

\* C8 (as claimed): a block text longer than max_chars is alone in its
\* chunk, whatever follows it.
C8_OversizedBlockAlone ==
  (build_pc = "returned" /\ pieces # <<>>)
    => /\ RunsCoverPieces
       /\ \A c \in 1..Len(chunks) : Oversized(c) => Runs[c].from = Runs[c].to

\* C8 (amended): a block text longer than max_chars is whole and first in
\* its chunk, and alone in it unless the chunk is the last one and received
\* the merged tail, which is shorter than min_chars.
C8_OversizedBlockAloneButMergedTail ==
  (build_pc = "returned" /\ pieces # <<>>)
    => /\ RunsCoverPieces
       /\ \A c \in 1..Len(chunks) :
            \A q \in Runs[c].from..Runs[c].to :
              Len(pieces[q]) > max_chars =>
                /\ q = Runs[c].from
                /\ \/ Runs[c].to = q
                   \/ /\ c = Len(chunks)
                      /\ TailMerged
                      /\ Body(chunks[c]) = pieces[q] \o SEP \o join(current)
                      /\ Len(join(current)) < min_chars

\* an oversized block text in the middle of a section, and one that shares
\* the last chunk with the merged tail
C8_Witness ==
  /\ TailMerged
  /\ RunsCoverPieces
  /\ Len(chunks) >= 2
  /\ Oversized(Len(chunks))
  /\ Runs[Len(chunks)].to > Runs[Len(chunks)].from


(***************************************************************************)
(* Properties of retrieve_top_k, under SpecRetr.  Row i of the table has   *)
(* id i and load_chunks keeps the order of the rows, so a smaller id is an *)
(* earlier place in the pool.                                              *)
(***************************************************************************)
\* C9 (as claimed): the returned list has min(max(k, 0), number of scorable
\* candidates) entries: none when k <= 0, all of them when k is larger.
C9_ResultLength ==
  retr_pc = "returned" => Len(top) = Min(Max(k, 0), Len(scored))

\* C10: the scored list is in non-increasing order of score, pairs of equal
\* score are in the pool's order, it holds the same pairs as were scored;
\* the returned list is its beginning, so every returned pair scores at
\* least as high as every scored pair that is not returned.
C10_SortedStableTopK ==
  retr_pc \in {"slice", "returned"}
    => /\ Len(scored_chunks) = Len(scored)
       /\ \A i \in 1..Len(scored) : \E j \in 1..Len(scored_chunks) :
            scored_chunks[j] = scored[i]
       /\ \A i \in 1..Len(scored_chunks) : \A j \in 1..Len(scored_chunks) :
            i < j =>
              /\ ScoreGE(scored_chunks[i].score, scored_chunks[j].score)
              /\ ScoreEQ(scored_chunks[i].score, scored_chunks[j].score)
                   => scored_chunks[i].chunk.id < scored_chunks[j].chunk.id
       /\ retr_pc = "returned" =>
            /\ Len(top) <= Len(scored_chunks)
            /\ \A i \in 1..Len(top) :
                 /\ top[i] = scored_chunks[i]
                 /\ \A j \in (Len(top) + 1)..Len(scored_chunks) :
                      ScoreGE(top[i].score, scored_chunks[j].score)

\* a returned top 2 whose two pairs tie and outscore a pair left out
C10_Witness ==
  /\ retr_pc = "returned"
  /\ k = 2
  /\ Len(top) = 2
  /\ Len(scored_chunks) = MaxPool
  /\ ScoreEQ(top[1].score, top[2].score)
  /\ ~ScoreGE(scored_chunks[MaxPool].score, top[2].score)


(***************************************************************************)
(* Properties of score_chunks_by_similarity, under SpecScore.  The kinds   *)
(* of stored value are told apart by the value itself, not by what the     *)
(* scorer did with it.                                                     *)
(***************************************************************************)
\* what a stored value is: "absent", "undecodable", "non-sequence",
\* "empty" (a sequence without elements), "numeric" (a non-empty sequence
\* of numbers) or "non-numeric" (a sequence with another element)
SequenceClass(elems) ==
  IF elems = <<>> THEN "empty"
  ELSE IF \A i \in 1..Len(elems) : elems[i].t = "num" THEN "numeric"
  ELSE "non-numeric"

StoredClass(raw) ==
  IF raw.kind = "None" THEN "absent"
  ELSE IF raw.kind = "str"
       THEN LET decoded == json_loads(raw.s)
            IN IF ~decoded.ok THEN "undecodable"
               ELSE IF ~decoded.isList THEN "non-sequence"
               ELSE SequenceClass(decoded.val)
  ELSE IF raw.kind \in {"list", "tuple"} THEN SequenceClass(raw.v)
  ELSE "non-sequence"

Absent(raw) == StoredClass(raw) = "absent"
Undecodable(raw) == StoredClass(raw) = "undecodable"
NonSequence(raw) == StoredClass(raw) = "non-sequence"
EmptySequence(raw) == StoredClass(raw) = "empty"
NumericSequence(raw) == StoredClass(raw) = "numeric"

\* the elements of a stored sequence, native or encoded
ElementsOf(raw) == IF raw.kind = "str" THEN json_loads(raw.s).val ELSE raw.v

\* how often the returned list holds the candidate
Occurrences(ch) ==
  Cardinality({ j \in 1..Len(scored_chunks) : scored_chunks[j].chunk = ch })

\* the candidates of the pool that are in the returned list, in pool order
Included == SelectSeq(loaded, LAMBDA ch : Occurrences(ch) >= 1)

\* C11: when the scorer returns, its list holds exactly once every candidate
\* whose stored vector normalizes to a non-empty numeric sequence, and holds
\* no candidate whose stored vector is absent, undecodable, decodes to a
\* non-sequence or is an empty sequence; the list is the one the scorer
\* returns for the pool without the excluded candidates (same scores, same
\* order).
C11_ScoredExactlyTheNumeric ==
  retr_pc = "slice"
    => /\ \A i \in 1..Len(loaded) :
            /\ NumericSequence(loaded[i].embedding) => Occurrences(loaded[i]) = 1
            /\ ( \/ Absent(loaded[i].embedding)
                 \/ Undecodable(loaded[i].embedding)
                 \/ NonSequence(loaded[i].embedding)
                 \/ EmptySequence(loaded[i].embedding) )
                 => Occurrences(loaded[i]) = 0
       /\ ~score_chunks_by_similarity(query_embedding, Included).raised
       /\ scored_chunks = score_chunks_by_similarity(query_embedding, Included).val

\* a returned list of two candidates, in the reverse of their pool order,
\* from a pool with an undecodable candidate between them
C11_Witness ==
  /\ retr_pc = "slice"
  /\ Len(loaded) = MaxPool
  /\ Undecodable(loaded[2].embedding)
  /\ Len(scored_chunks) = 2
  /\ scored_chunks[1].chunk = loaded[MaxPool]
  /\ scored_chunks[2].chunk = loaded[1]

\* C12 (as claimed): whatever pool is passed to the scorer, only candidates
\* whose quality marker is 'ok' are in the scored result.
C12_ScorerExcludesByQuality ==
  retr_pc = "slice"
    => \A j \in 1..Len(scored_chunks) : scored_chunks[j].chunk.quality_flag = "ok"

\* the pool with every quality marker set to 'ok'
MarkedOk(pool) == [i \in 1..Len(pool) |-> [pool[i] EXCEPT !.quality_flag = "ok"]]

\* the ids and scores of a scored list, in its order
IdsAndScores(pairs) ==
  [j \in 1..Len(pairs) |-> [id |-> pairs[j].chunk.id, score |-> pairs[j].score]]

\* C12 (amended): the quality marker is checked by load_chunks only: the
\* pool it loads, which is the pool retrieve_top_k passes to the scorer,
\* holds only candidates marked 'ok', and so does the scored result of that
\* pool.  The scorer does not read the marker: a candidate with another
\* marker and a valid vector in a pool passed to it is scored like one
\* marked 'ok'.
C12_QualityFilteredByLoadChunksOnly ==
  retr_pc = "slice"
    => /\ \A i \in 1..Len(load_chunks(loaded, preload_limit)) :
            load_chunks(loaded, preload_limit)[i].quality_flag = "ok"
       /\ LET res == score_chunks_by_similarity(
                       query_embedding, load_chunks(loaded, preload_limit))
          IN \A j \in 1..Len(res.val) : res.val[j].chunk.quality_flag = "ok"
       /\ \A i \in 1..Len(loaded) :
            (loaded[i].quality_flag # "ok" /\ NumericSequence(loaded[i].embedding))
              => Occurrences(loaded[i]) = 1
       /\ IdsAndScores(scored_chunks) =
            IdsAndScores(score_chunks_by_similarity(
                           query_embedding, MarkedOk(loaded)).val)

\* the scorer returned a candidate that is not marked 'ok' and that
\* load_chunks would not have loaded
C12_Witness ==
  /\ retr_pc = "slice"
  /\ \E j \in 1..Len(scored_chunks) : scored_chunks[j].chunk.quality_flag # "ok"
  /\ Len(load_chunks(loaded, preload_limit)) < Len(scored_chunks)
  /\ load_chunks(loaded, preload_limit) # <<>>


(***************************************************************************)
(* Properties of _normalize_embedding, under SpecNormalize.  What the      *)
(* stored texts are as JSON is written down here from the JSON grammar,    *)
(* apart from the decoder of the model.                                    *)
(***************************************************************************)
\* the stored texts that are JSON arrays of integers int() converts
ArrayTexts ==
  { <<"[", "1", ",", " ", "0", "]">>,
    <<" ", "[", "2", ",", "-", "1", "]", "\n">>,
    <<"[", " ", "]">> }

\* the array such a text encodes
ArrayOfText(t) ==
  IF t = <<"[", "1", ",", " ", "0", "]">> THEN <<Num(1), Num(0)>>
  ELSE IF t = <<" ", "[", "2", ",", "-", "1", "]", "\n">> THEN <<Num(2), Num(0 - 1)>>
  ELSE <<>>

\* the stored texts that are no JSON: an open array, a trailing comma, ""
NoJsonTexts == { <<"[", "1">>, <<"[", "1", ",", "]">>, <<>> }

\* the stored texts that are JSON but no array: number, null, object, string
NonArrayTexts ==
  { <<"7">>, <<"n", "u", "l", "l">>, <<"{", "}">>, <<"\"", "a", "\"">> }

\* C13 (as claimed): no call of _normalize_embedding by the loop raises,
\* and for every candidate the loop has normalized: a native list or tuple
\* gives the list of its elements; a string that is a JSON array gives the
\* decoded array; None, a string that is no JSON, a string that is JSON but
\* no array, and a value of any other type give None.
C13_NormalizeEmbedding ==
  \A i \in 1..Len(loaded) :
    LET raw == loaded[i].embedding
        res == _normalize_embedding(raw)
    IN /\ (retr_pc = "raised" /\ i = score_i) => ~normalize_raises(raw)
       /\ i < score_i =>
            /\ raw.kind \in {"list", "tuple"} => res = <<raw.v>>
            /\ (raw.kind = "str" /\ raw.s \in ArrayTexts)
                 => res = <<ArrayOfText(raw.s)>>
            /\ (raw.kind = "str" /\ raw.s \in NoJsonTexts \cup NonArrayTexts)
                 => res = <<>>
            /\ raw.kind \in {"None", "other"} => res = <<>>
            /\ \/ raw.kind \in {"list", "tuple", "None", "other"}
               \/ raw.kind = "str"
                    /\ raw.s \in ArrayTexts \cup NoJsonTexts \cup NonArrayTexts


(***************************************************************************)
(* Storage representation, under SpecScore.                                *)
(***************************************************************************)
\* ", ".join of the texts
RECURSIVE JoinComma(_)
JoinComma(parts) ==
  IF parts = <<>> THEN <<>>
  ELSE IF Len(parts) = 1 THEN parts[1]
  ELSE parts[1] \o <<",", " ">> \o JoinComma(Tail(parts))

\* the string encoding of a vector of numbers 0..99: "[1, 0]"
EncodeVector(elems) ==
  <<"[">> \o JoinComma([i \in 1..Len(elems) |-> str(elems[i].v)]) \o <<"]">>

\* the candidate with its numeric vector in the other representation: a
\* native vector as its string encoding, an encoded one as the native list
OtherRepresentation(ch) ==
  IF ~NumericSequence(ch.embedding) THEN ch
  ELSE IF ch.embedding.kind = "str"
       THEN [ch EXCEPT !.embedding = RawList(ElementsOf(ch.embedding))]
       ELSE [ch EXCEPT !.embedding = RawStr(EncodeVector(ch.embedding.v))]

\* the pool with the candidates at the places S in the other representation
Reencoded(pool, S) ==
  [i \in 1..Len(pool) |-> IF i \in S THEN OtherRepresentation(pool[i]) ELSE pool[i]]

\* the sets of places tried: each single candidate, and all of them
Replacements(pool) == { {i} : i \in 1..Len(pool) } \cup { 1..Len(pool) }

\* C14: replacing any candidate's numeric vector, or every candidate's, by
\* the other storage representation of the same vector (native by string
\* encoding, string encoding by native) leaves the scorer's outcome
\* unchanged: the same candidates with the same scores in the same order,
\* or a raise as before.
C14_RepresentationIndependent ==
  retr_pc \in {"slice", "raised"}
    => \A S \in Replacements(loaded) :
         LET res == score_chunks_by_similarity(query_embedding, Reencoded(loaded, S))
         IN IF retr_pc = "raised" THEN res.raised
            ELSE /\ ~res.raised
                 /\ IdsAndScores(res.val) = IdsAndScores(scored_chunks)

\* the example: [1,0], [0,1] and an encoded vector between them ("[9,1]",
\* the direction of [0.9,0.1]) under the query [1,0]: the [1,0] chunk, then
\* the encoded one, the [0,1] chunk last and outside the top 2
C14_Witness ==
  /\ retr_pc = "slice"
  /\ query_embedding = <<1, 0>>
  /\ Len(loaded) = 3
  /\ loaded[1].embedding = RawList(<<Num(1), Num(0)>>)
  /\ loaded[2].embedding = RawList(<<Num(0), Num(1)>>)
  /\ loaded[3].embedding = RawStr(<<"[", "9", ",", "1", "]">>)
  /\ IdsAndScores(scored_chunks) =
       IdsAndScores(score_chunks_by_similarity(
                      query_embedding, Reencoded(loaded, {1, 2, 3})).val)
  /\ [j \in 1..2 |-> PySlice(scored_chunks, 2)[j].chunk.id] = <<1, 3>>
  /\ scored_chunks[3].chunk.id = 2


(***************************************************************************)
(* Zero vectors, under SpecScore.                                          *)
(***************************************************************************)
AllZero(vec) == \A i \in 1..Len(vec) : vec[i] = 0

\* the stored vector is a non-empty sequence of zeros
ZeroCandidate(ch) ==
  /\ NumericSequence(ch.embedding)
  /\ LET elems == ElementsOf(ch.embedding)
     IN \A i \in 1..Len(elems) : elems[i].v = 0

\* C15: no score is a quotient by zero; the score of a pair in which the
\* query or the candidate has norm zero is exactly 0.0; and a candidate with
\* an all-zero vector, or any candidate with a numeric vector under an
\* all-zero query, does not make the scorer raise and is in the scored list.
C15_ZeroNormScoresZero ==
  /\ \A j \in 1..Len(scored) :
       /\ scored[j].score.den > 0
       /\ (AllZero(query_embedding) \/ ZeroCandidate(scored[j].chunk))
            => scored[j].score = ZeroScore
  /\ \A i \in 1..Len(loaded) :
       ( /\ NumericSequence(loaded[i].embedding)
         /\ AllZero(query_embedding) \/ ZeroCandidate(loaded[i]) )
         => /\ i < score_i =>
                 \E j \in 1..Len(scored) :
                   scored[j] = [chunk |-> loaded[i], score |-> ZeroScore]
            /\ ~(retr_pc = "raised" /\ i = score_i)
  /\ retr_pc = "slice" =>
       \A j \in 1..Len(scored) : \E m \in 1..Len(scored_chunks) :
         scored_chunks[m] = scored[j]

\* under the all-zero query the scorer returned every candidate of a pool
\* that holds a vector of another length than the query and an all-zero
\* vector, each scored 0.0
C15_Witness ==
  /\ retr_pc = "slice"
  /\ AllZero(query_embedding)
  /\ Len(loaded) = MaxPool
  /\ Len(scored_chunks) = MaxPool
  /\ \E i \in 1..Len(loaded) : loaded[i].embedding = RawList(<<Num(1)>>)
  /\ \E i \in 1..Len(loaded) : ZeroCandidate(loaded[i])
  /\ \A j \in 1..Len(scored_chunks) : scored_chunks[j].score = ZeroScore


(***************************************************************************)
(* Malformed stored vectors, under SpecScore.                              *)
(***************************************************************************)
\* the stored vector is of a wrong type, undecodable, no array, an array
\* with a non-numeric element, or a numeric array of another length than
\* the query vector
Malformed(ch) ==
  \/ StoredClass(ch.embedding) \in {"non-sequence", "undecodable", "non-numeric"}
  \/ /\ NumericSequence(ch.embedding)
     /\ Len(ElementsOf(ch.embedding)) # Len(query_embedding)

\* C16 (as claimed): whatever the stored vectors of the pool are, the scorer
\* does not raise; when it returns, no malformed candidate is in its list,
\* and the list is the one it returns for the pool without them.
C16_MalformedAbsorbed ==
  /\ retr_pc # "raised"
  /\ retr_pc = "slice" =>
       /\ \A i \in 1..Len(loaded) : Malformed(loaded[i]) => Occurrences(loaded[i]) = 0
       /\ scored_chunks =
            score_chunks_by_similarity(
              query_embedding, SelectSeq(loaded, LAMBDA ch : ~Malformed(ch))).val


(***************************************************************************)
(* Sections without text, under SpecBuild.                                 *)
(***************************************************************************)
\* no block of the section has text left after trimming
NoBlockText ==
  \A n \in 1..Len(section.blocks) : strip(section.blocks[n].text) = <<>>

\* C17: for a section none of whose blocks has non-empty trimmed text, the
\* call returns at once (no chunking loop, hence nothing that can fail):
\* the list with only the stripped title when that is non-empty, the empty
\* list otherwise.
C17_TextlessSection ==
  NoBlockText
    => /\ build_pc \in {"start", "returned"}
       /\ build_pc = "returned" =>
            chunks = IF strip(section.title) # <<>>
                     THEN << strip(section.title) >>
                     ELSE <<>>

\* a section of blocks with empty and whitespace-only text and a title in
\* whitespace came back as the list of its stripped title
C17_Witness ==
  /\ build_pc = "returned"
  /\ Len(section.blocks) = MaxSectionBlocks
  /\ NoBlockText
  /\ \E n \in 1..Len(section.blocks) : section.blocks[n].text # <<>>
  /\ section.title # strip(section.title)
  /\ chunks = << strip(section.title) >>


(***************************************************************************)
(* Collaborator failures, under SpecRetr.  retr_pc = "raised_store" and    *)
(* "raised_embed" are retrieve_top_k left by the error of the store read   *)
(* and of the embedding call.                                              *)
(***************************************************************************)
\* C18: when the store read or the embedding call raises, that error leaves
\* retrieve_top_k: no list is returned, nothing was scored, and no further
\* step follows (no retry); retrieve_top_k returns normally with loaded
\* chunks only when the embedding call answered.
C18_CollaboratorFailuresPropagate ==
  /\ [](retr_pc = "raised_store"
          => top = <<>> /\ loaded = <<>> /\ query_embedding = <<>> /\ scored = <<>>)
  /\ [](retr_pc = "raised_embed"
          => top = <<>> /\ query_embedding = <<>> /\ scored = <<>>)
  /\ [](retr_pc = "returned" /\ loaded # <<>> => query_embedding # <<>>)
  /\ [][retr_pc \notin {"raised_store", "raised_embed"}]_vars

\* the store was read and the embedding call raised
C18_Witness ==
  /\ retr_pc = "raised_embed"
  /\ Len(loaded) = MaxPool


(***************************************************************************)
(* Properties of rag_answer, under SpecAnswer.                             *)
(***************************************************************************)
\* retrieve_top_k has returned the empty list to rag_answer
NothingFound == answer_pc = "retrieving" /\ retr_pc = "returned" /\ top = <<>>

\* the fixed answer was returned and the chat-completion model not called
FixedAnswerReturned ==
  /\ answer_pc = "returned"
  /\ response = Answered(NO_FRAGMENT_ANSWER, <<>>)
  /\ chat_calls = 0

\* C19: whenever retrieve_top_k yields the empty list, the next step of
\* rag_answer returns the fixed 'no fragment found' answer with an empty
\* citations list, with status 200 and without a call of the
\* chat-completion model; and that step is taken.
C19_NothingFoundIsAnswered ==
  /\ [][NothingFound => FixedAnswerReturned']_vars
  /\ NothingFound ~> FixedAnswerReturned

\* the fixed answer for a full table of which no chunk could be scored,
\* asked with top_k = 5
C19_Witness ==
  /\ FixedAnswerReturned
  /\ Len(store) = MaxStore
  /\ \A i \in 1..Len(store) : store[i].embedding.kind # "None"
  /\ body.top_k = 5


(***************************************************************************)
(* Properties of the bot together with the service, under SpecBot.         *)
(***************************************************************************)
\* the request model has refused the request of the bot
ModeRefused == answer_pc = "rejected" /\ body.mode \notin AnswerModes

\* the chat got the error message, or the inline query got no answer,
\* because the service answered 422
FailedByMode == reply.kind \in {"error", "dropped"} /\ reply.status = 422

\* C20: every mode the bot lets a chat select, and the mode "short" of
\* inline queries, is accepted by the request model of /rag/answer: no
\* request of the bot is refused for its mode, and no question gets the
\* error reply and no inline query is dropped for it.
C20_BotModesAccepted == ~ModeRefused /\ ~FailedByMode


(***************************************************************************)
(* Properties of ingest_from_manifest, under SpecManifest.                 *)
(***************************************************************************)
\* the selected entries for which the documents table holds no record with
\* the entry's own slug and version
EntriesWithoutRecord ==
  SelectSeq(docs, LAMBDA d : ~exists_in_supabase(documents, d))

\* line 176 has just chosen the documents to ingest; none was ingested yet,
\* and the documents table is the one check_in_supabase has read
IngestionChosen == man_pc = "ingest" /\ man_i = 1 /\ ingested = <<>>

\* C21: in mode 'check' the per-document ingestion is run for no document;
\* in mode 'ingest' it is run for exactly the selected entries for which the
\* store holds no document record with the entry's own (slug, version), in
\* manifest order, whatever slugs and versions the manifest's entries have.
C21_IngestsExactlyTheNew ==
  /\ mode = "check" => ingested = <<>>
  /\ IngestionChosen => new_docs = EntriesWithoutRecord
  /\ man_pc = "ingest" => ingested = SubSeq(new_docs, 1, man_i - 1)
  /\ (man_pc = "returned" /\ mode = "ingest") => ingested = new_docs


(***************************************************************************)
(* Anchors of the sections, under SpecSplit.                               *)
(***************************************************************************)
\* the section starts with a level-1 block, which is its heading_block and
\* the source of its title, and holds no other level-1 block
AnchoredByHeading(s) ==
  /\ s.blocks # <<>>
  /\ s.blocks[1].level = 1
  /\ s.heading_block = <<s.blocks[1]>>
  /\ s.title = OrElse(_get_block_text(s.blocks[1]), SectionTitle(s.index))
  /\ \A j \in 2..Len(s.blocks) : s.blocks[j].level # 1

\* C22 (as claimed): when the input has a level-1 block, every returned
\* section begins with a level-1 block, which is its heading_block and the
\* source of its title, and has no other level-1 block; no paragraph and no
\* heading of level >= 2 opens a section.
C22_SectionsAnchoredByHeading ==
  (split_pc = "returned" /\ HasH1(blocks))
    => \A n \in 1..Len(sections) : AnchoredByHeading(sections[n])


(***************************************************************************)
(* The length tracked for the buffer, under SpecBuild.                     *)
(***************************************************************************)
\* the loop stands before the piece it handles next
BeforePiece == build_pc = "loop" /\ piece_i <= Len(pieces)

\* appending the next piece, behind a blank line, makes the joined buffer
\* longer than max_chars
WouldExceed == Len(join(Append(current, pieces[piece_i]))) > max_chars

\* C23 (as claimed): the length tracked for the buffer is the length of the
\* buffer's pieces joined by blank lines, also for a buffer started right
\* after a flush; and the buffer is flushed before a piece is added exactly
\* when it is non-empty and the joined text with the piece would be longer
\* than max_chars.
C23_FlushIffTooLong ==
  /\ build_pc = "loop" => current_len = Len(join(current))
  /\ BeforePiece =>
       (flush_before(current_len, extra_len(pieces[piece_i], current),
                     current, max_chars)
          <=> (current # <<>> /\ WouldExceed))


(***************************************************************************)
(* Chunks of the sections of a document, under SpecBook: the state where   *)
(* build_text_chunks_for_section has returned the chunks of the section    *)
(* sections[book_i] of split_into_sections.                                *)
(***************************************************************************)
SectionChunked == book_pc = "building" /\ build_pc = "returned"

\* the texts of the blocks that follow the heading of the section
TextsAfterHeading == PiecesOf(Tail(section.blocks))

\* C24 (as claimed): for a document that starts with a level-1 heading, the
\* chunks of a section with blocks behind its heading are the title, a blank
\* line and texts of the blocks that follow the heading: every chunk begins
\* with the title and a blank line, and the chunk bodies, joined by blank
\* lines, are the texts of the blocks behind the heading; the heading text
\* is not repeated in a body.
C24_HeadingOnlyAsTitlePrefix ==
  (SectionChunked /\ blocks[1].level = 1 /\ Len(section.blocks) >= 2)
    => /\ \A c \in 1..Len(chunks) : StartsWith(chunks[c], Prefix)
       /\ join(Bodies) = join(TextsAfterHeading)


(***************************************************************************)
(* Calls of the embedding provider, under SpecScope.                       *)
(***************************************************************************)
\* retrieve_top_k has returned a list
Returned == retr_pc = "returned"

\* C25 (as claimed): every invocation of retrieve_top_k that returns has
\* made exactly one call of the embedding provider, with the whole query
\* string, whatever the pool holds: also for an empty pool.
C25_OneEmbeddingCall == Returned => embed_calls = <<query>>

\* C25: an invocation of retrieve_top_k calls the embedding provider at most
\* once, with the whole query string: exactly once, before anything is
\* scored, when load_chunks has returned a pool that is not empty (also when
\* none of its candidates is scorable), and not at all when the pool is
\* empty or the store read has raised.
C25_OneEmbeddingCallUnlessPoolEmpty ==
  /\ Len(embed_calls) <= 1
  /\ \A n \in 1..Len(embed_calls) : embed_calls[n] = query
  /\ retr_pc \in {"score", "slice", "raised", "raised_embed"}
       => embed_calls = <<query>>
  /\ retr_pc \in {"call", "embed", "raised_store"} => embed_calls = <<>>
  /\ Returned => (embed_calls = IF loaded = <<>> THEN <<>> ELSE <<query>>)

\* a list returned for a pool of MaxScopeRows candidates none of which is
\* scorable, after one call with the query
C25_Witness ==
  /\ Returned
  /\ Len(loaded) = MaxScopeRows
  /\ top = <<>>
  /\ scored = <<>>
  /\ embed_calls = <<query>>
  /\ Len(query) > 1

(***************************************************************************)
(* C26: when build_embeddings_for_all_chunks has returned, no chunk that   *)
(* has a document_id and a non-empty text is left without an embedding,    *)
(* whatever rows the store returned under the batch limit and however many *)
(* broken rows the table holds.                                            *)
(***************************************************************************)
ValidLeftPending ==
  \E n \in 1..Len(db_chunks) :
    IsValidRow(db_chunks[n]) /\ db_chunks[n].embedding = <<>>

C26_QueueDrained == emb_pc = "returned" => ~ValidLeftPending

(***************************************************************************)
(* C27: update_embeddings leaves every stored column but embedding as it   *)
(* was, writes the embedding of fetched rows only, and when the number of  *)
(* rows differs from the number of embeddings it writes nothing and        *)
(* raises, never returns.                                                  *)
(***************************************************************************)
OnlyEmbeddingChanges ==
  /\ Len(db_chunks') = Len(db_chunks)
  /\ \A n \in 1..Len(db_chunks) :
       /\ Fetched(db_chunks'[n]) = Fetched(db_chunks[n])
       /\ db_chunks'[n].embedding # db_chunks[n].embedding
            => \E m \in 1..Len(rows) : rows[m].id = db_chunks[n].id

CountsDiffer == Len(rows) # Len(embeddings)

C27_OnlyEmbeddingWritten ==
  /\ [][OnlyEmbeddingChanges]_vars
  /\ [][CountsDiffer => db_chunks' = db_chunks]_vars
  /\ [](CountsDiffer /\ emb_pc # "update" => emb_pc = "raised")

(***************************************************************************)
(* C27, amended: the same, but a differing number of embeddings raises     *)
(* only when rows is not empty; with no rows update_embeddings returns     *)
(* without writing.                                                        *)
(***************************************************************************)
C27_OnlyEmbeddingWrittenRowsGiven ==
  /\ [][OnlyEmbeddingChanges]_vars
  /\ [][CountsDiffer => db_chunks' = db_chunks]_vars
  /\ [](CountsDiffer /\ rows # <<>> /\ emb_pc # "update" => emb_pc = "raised")
  /\ [](rows = <<>> /\ emb_pc # "update" => emb_pc = "updated")

\* a chunk marked 'draft' with a page has been given its embedding
C27_Witness ==
  /\ emb_pc = "updated"
  /\ \E n \in 1..Len(db_chunks) :
       /\ db_chunks[n].quality_flag = <<"draft">>
       /\ db_chunks[n].page_from = <<3>>
       /\ db_chunks[n].embedding = <<Vector>>
       /\ \E m \in 1..Len(rows) : rows[m].id = db_chunks[n].id

(***************************************************************************)
(* C28: the chunks insert_chunks_for_book prepares and writes for the      *)
(* document are numbered 1..N in the order of the payload, which follows   *)
(* the order of the sections and, inside a section, the order of its       *)
(* chunks; a section without chunks takes no number; every chunk carries   *)
(* the section id at the position of its section.                          *)
(***************************************************************************)
\* the position of a section id among section_ids
PositionOf(sec) == CHOOSE pos \in 1..Len(section_ids) : section_ids[pos] = sec[1]

\* the payload is numbered 1..N, the counter is the last number given
DenseIndex ==
  /\ global_chunk_index = Len(all_chunks_payload)
  /\ \A n \in 1..Len(all_chunks_payload) :
       all_chunks_payload[n].chunk_index = <<n>>

\* the payload follows the order of the sections handled so far
SectionOrder ==
  \A n \in 1..Len(all_chunks_payload) :
    /\ \E pos \in 1..(book_i - 1) : section_ids[pos] = all_chunks_payload[n].section_id[1]
    /\ \A m \in 1..(n - 1) :
         PositionOf(all_chunks_payload[m].section_id)
           <= PositionOf(all_chunks_payload[n].section_id)

\* the section handled last: its chunks end the payload, in their order,
\* under its section id
LastSectionAttached ==
  (book_pc = "sections" /\ book_i > 1) =>
    /\ Len(all_chunks_payload) >= Len(chunks)
    /\ \A j \in 1..Len(chunks) :
         LET entry == all_chunks_payload[Len(all_chunks_payload) - Len(chunks) + j]
         IN /\ entry.text = <<chunks[j]>>
            /\ entry.section_id = <<section_ids[book_i - 1]>>
            /\ entry.document_id = <<document_id>>

\* what is written is the payload, row for row
WrittenAsPrepared ==
  /\ book_pc \in {"batches", "done", "raised"} => Len(db_chunks) <= Len(all_chunks_payload)
  /\ book_pc = "done" => Len(db_chunks) = Len(all_chunks_payload)
  /\ \A n \in 1..Len(db_chunks) :
       /\ db_chunks[n].chunk_index = <<n>>
       /\ db_chunks[n].section_id = all_chunks_payload[n].section_id
       /\ db_chunks[n].text = all_chunks_payload[n].text
       /\ db_chunks[n].document_id = <<document_id>>

C28_DenseChunkIndex ==
  book_pc \in {"sections", "building", "batches", "done"} =>
    DenseIndex /\ SectionOrder /\ LastSectionAttached /\ WrittenAsPrepared

\* a section without chunks stands between two sections with chunks: the
\* written chunks are numbered on from the first section to the third
C28_Witness ==
  /\ book_pc = "done"
  /\ Len(sections) = 3
  /\ Len(db_chunks) >= 2
  /\ db_chunks[1].section_id = <<section_ids[1]>>
  /\ db_chunks[Len(db_chunks)].section_id = <<section_ids[3]>>
  /\ db_chunks[Len(db_chunks)].chunk_index = <<Len(db_chunks)>>
  /\ \A n \in 1..Len(db_chunks) : db_chunks[n].section_id # <<section_ids[2]>>

(***************************************************************************)
(* C29: when ingest_book_generic has failed after the lookup of a document *)
(* that was stored with its sections and chunks, those sections and chunks *)
(* are still stored: old content goes only when the new content is         *)
(* written in full.                                                        *)
(***************************************************************************)
\* the store held the document before the run: a created record would
\* stand after the other document's
DocumentWasStored == documents = <<StoredDocument, OtherDocument>>

Holds(table, row) == \E n \in 1..Len(table) : table[n] = row

OldContentStored ==
  /\ \A n \in 1..Len(StoredChunks) : Holds(db_chunks, StoredChunks[n])
  /\ \A n \in 1..Len(StoredSections) : Holds(db_sections, StoredSections[n])

C29_FailedReingestKeepsContent ==
  (book_pc = "raised" /\ DocumentWasStored) => OldContentStored

(***************************************************************************)
(* C30: with a non-empty list slugs, or without one but with a non-empty   *)
(* slug, every chunk retrieve_top_k loads or returns belongs to a document *)
(* whose slug the filter names; when no stored document has such a slug    *)
(* the result is empty and the embedding provider has not been called;     *)
(* with neither filter the pool is drawn from the chunks of all documents. *)
(***************************************************************************)
FilterGiven == TruthyList(slugs) \/ TruthyStr(slug)

\* the slugs the filter names: those of the list, or else the one slug
FilterSlugs ==
  IF TruthyList(slugs) THEN { slugs[1][n] : n \in 1..Len(slugs[1]) }
  ELSE IF TruthyStr(slug) THEN { slug[1] }
  ELSE {}

InFilter(doc) ==
  \E n \in 1..Len(documents) :
    documents[n].id = doc /\ documents[n].slug \in FilterSlugs

NoDocumentMatches ==
  \A n \in 1..Len(documents) : documents[n].slug \notin FilterSlugs

C30_ScopeIsKept ==
  /\ FilterGiven =>
       /\ \A n \in 1..Len(loaded) : InFilter(loaded[n].document_id)
       /\ \A n \in 1..Len(top) : InFilter(top[n].chunk.document_id)
  /\ (FilterGiven /\ NoDocumentMatches) =>
       /\ embed_calls = <<>>
       /\ loaded = <<>>
       /\ Returned => top = <<>>
  /\ (~FilterGiven /\ retr_pc \notin {"call", "raised_store"}) =>
       \/ loaded = load_chunks(store, preload_limit)
       \/ loaded = <<>> /\ Returned /\ load_chunks(store, preload_limit) = <<>>

\* slugs names "b" and slug names "a": a chunk of "b" is returned while the
\* store holds a chunk of "a"
C30_Witness ==
  /\ Returned
  /\ slugs = << <<"b">> >>
  /\ slug = <<"a">>
  /\ top # <<>>
  /\ \E n \in 1..Len(store) :
       /\ store[n].document_id = 1
       /\ load_chunks(<<store[n]>>, preload_limit) # <<>>

=============================================================================
